---- MODULE Spec2Model ----
(***************************************************************************)
(* Model of the MCP client runtime of the copilot-mcp bridge:              *)
(*   - one session (MCPClient over a stdio / http / websocket Transport)   *)
(*     with its request/response correlator      -> specification SpecSession *)
(*   - the connection pool (MCPConnectionPool) and the manager operations  *)
(*     that borrow sessions from it              -> specification SpecPool *)
(* Both specifications share this module; each leaves the other one's      *)
(* variables unchanged.                                                    *)
(***************************************************************************)
EXTENDS Integers, Sequences, FiniteSets, TLC

(***************************************************************************)
(* Bounds                                                                  *)
(***************************************************************************)
\* request ids a session may issue ("<serverId>-<n>", n = 1..MaxRequests)
MaxRequests == 3
\* response frames the server may send beyond one answer per request
\* (duplicates, answers to ids it was never asked)
MaxExtraFrames == 1
\* notifications/resources/updated frames the server may send
MaxNotifications == 1

Ids == 1..MaxRequests

TransportKinds == {"stdio", "http", "websocket"}

\* ConnectionState (types/protocol.ts)
Disconnected == "disconnected"
Connecting == "connecting"
Connected == "connected"
Error == "error"
Reconnecting == "reconnecting"
ConnectionState == {Disconnected, Connecting, Connected, Error, Reconnecting}

\* WebSocketTransport constructor: maxReconnectAttempts = config.maxRetries || 5;
\* the model configures maxRetries = 2
maxReconnectAttempts == 2

NoCtl == 0

VARIABLES
  transport,   \* the Transport object of the session (base + subclass fields)
  client,      \* the MCPClient object of the session
  callers,     \* one promise per request id handed out by Transport.sendRequest
  server,      \* the remote endpoint: requests received, frames answered
  api          \* position of the API calls in progress on the client

sessionVars == <<transport, client, callers, server, api>>

(***************************************************************************)
(* MCPCapabilities as advertised in the initialize response                *)
(***************************************************************************)
NoCapabilities ==
  [toolsList |-> FALSE, toolsExecute |-> FALSE, resourcesList |-> FALSE]
CapabilitySets ==
  [toolsList : BOOLEAN, toolsExecute : BOOLEAN, resourcesList : BOOLEAN]

\* the catalogue of the server: what it answers to tools/list and to
\* resources/list
ServerTools == {"echo"}
ServerResources == {"file:///a"}
\* the names a caller may pass to executeTool
ToolNames == {"echo", "unknown"}

\* the result of a response: the capabilities of an initialize result, the
\* tools of a tools/list result
NoResult == [caps |-> NoCapabilities, tools |-> {}]

(***************************************************************************)
(* Transport (transport/base.ts) -- pure helpers on the transport record   *)
(***************************************************************************)
isConnected(t) == t.state = Connected

setState(t, s) == [t EXCEPT !.state = s]

\* base.ts handleError: state := Error, emit 'error'
handleError(t, e) == [t EXCEPT !.state = Error, !.lastError = e]

\* base.ts handleConnect
handleConnect(t) == [t EXCEPT !.state = Connected]

\* base.ts handleDisconnect: state := Disconnected, emit 'disconnect'
\* (the pending-request map is not touched)
handleDisconnect(t) == [t EXCEPT !.state = Disconnected]

\* MCPClient.setupTransportEvents, 'disconnect' listener; it only runs while
\* the transport still has its listeners (Transport.dispose removes them)
onTransportDisconnect(c, t) ==
  IF t.disposed THEN c
  ELSE [c EXCEPT !.initialized = FALSE, !.capabilities = NoCapabilities,
                 !.tools = {}, !.resources = {}]

(***************************************************************************)
(* Caller promises: the promise Transport.sendRequest returns for each id. *)
(* A promise is settled by the first resolve/reject only (JS semantics).   *)
(***************************************************************************)
settle(cs, S, how) ==
  [cs EXCEPT !.outcome =
     [x \in Ids |-> IF x \in S /\ cs.outcome[x] = "parked" THEN how ELSE cs.outcome[x]]]

\* resolve/reject invoked by handleResponse or by the request timer
deliver(cs, x) == [cs EXCEPT !.deliveries[x] = @ + 1]

parkedIn(cs, S) == {x \in S : cs.outcome[x] = "parked"}

NumDiscovery(caps) ==
  (IF caps.toolsList THEN 1 ELSE 0) + (IF caps.resourcesList THEN 1 ELSE 0)

(***************************************************************************)
(* MCPClient continuations that run when request promises settle           *)
(*   initialize()       mcpClient.ts 107-137                               *)
(*   discoverTools() / discoverResources()   mcpClient.ts 155-183          *)
(*   connect()          mcpClient.ts 100-104 (await initializationPromise) *)
(* S is the set of ids whose promise settles in this step, ok tells        *)
(* whether it was resolved with a result, caps is the capabilities object  *)
(* of an initialize result.                                                *)
(***************************************************************************)
finishInitialize(c, res) ==
  [c EXCEPT !.initPc = "idle", !.initResult = res,
            !.initializationPromise = IF @ = "pending" THEN res ELSE @]

\* discoverTools 157-162 / discoverResources 172-177 after their request
\* resolved: the cache is cleared and filled from the response.  A rejected
\* request leaves the cache as it is (catch 163-165, 178-180: 'error' event).
fillCaches(c, cs, E, ok, tl) ==
  [c EXCEPT !.tools = IF ok /\ \E x \in E : cs.method[x] = "tools/list"
                      THEN tl ELSE @,
            !.resources = IF ok /\ \E x \in E : cs.method[x] = "resources/list"
                          THEN ServerResources ELSE @]

afterSettled(c, cs, S, ok, res) ==
  LET E == parkedIn(cs, S)
      initHit == c.initPc = "request" /\ \E x \in E : cs.method[x] = "initialize"
      disc == c.discovery \ E
      c0 == fillCaches(c, cs, E, ok, res.tools)
  IN  IF initHit
      THEN IF ok
           THEN [c EXCEPT !.capabilities = res.caps, !.initialized = TRUE,
                          !.initPc = "notify"]
           ELSE finishInitialize(c, "rejected")
      ELSE IF c.initPc = "discover" /\ c.discovery # {} /\ disc = {}
           THEN finishInitialize([c0 EXCEPT !.discovery = {}], "resolved")
           ELSE [c0 EXCEPT !.discovery = disc]

\* connect() (awaiting the initialization promise) resumes as soon as the
\* initialize() it awaits has ended, with that promise's result
resumeConnect(a, c) ==
  IF a.connect = "initialize" /\ c.initPc = "idle"
  THEN [a EXCEPT !.connect = "idle", !.connectResult = c.initResult]
  ELSE a

(***************************************************************************)
(* Transport.handleResponse  base.ts 194-206                               *)
(***************************************************************************)
\* result: the transport, and whether a pending caller was found (it is
\* then removed, its timer cleared, and its resolve/reject invoked)
\* (a variant that leaves the pending entry and its timer in place)
handleResponseKeepsEntry(t, y) ==
  [t |-> t, hit |-> y \in t.pendingRequests]

handleResponse(t, y) ==
  [t |-> IF y \in t.pendingRequests
         THEN [t EXCEPT !.pendingRequests = @ \ {y}, !.timers = @ \ {y}]
         ELSE t,
   hit |-> y \in t.pendingRequests]

\* the effect of an inbound, valid response frame with id y on the session
\* (handleMessage 66-97 -> handleResponse -> promise continuations);
\* t is the transport record at the moment the frame is handled
ReceiveResponse(t, y, isErr, res) ==
  LET r == handleResponse(t, y)
      cs1 == IF r.hit
             THEN deliver(settle(callers, {y}, IF isErr THEN "rpcError" ELSE "resolved"), y)
             ELSE callers
      c1 == IF r.hit THEN afterSettled(client, callers, {y}, ~isErr, res) ELSE client
  IN  /\ transport' = r.t
      /\ callers' = cs1
      /\ client' = c1
      /\ api' = resumeConnect(api, c1)

\* the capabilities a server may put into the result of request y
ResultCaps(y) ==
  IF callers.method[y] = "initialize"
  THEN {cp \in CapabilitySets : client.requestId + NumDiscovery(cp) <= MaxRequests}
  ELSE {NoCapabilities}

\* the tools a server may put into the result of request y: its catalogue,
\* or none at all
ResultTools(y) ==
  IF callers.method[y] = "tools/list" THEN {{}, ServerTools} ELSE {{}}

Results(y) ==
  {[caps |-> cp, tools |-> tl] : cp \in ResultCaps(y), tl \in ResultTools(y)}

(***************************************************************************)
(* Issuing a request: MCPClient.sendRequest 274-294,                       *)
(* Transport.sendRequest 168-191 and the synchronous part of send()        *)
(***************************************************************************)
\* the guard at the top of send() of each transport
\* (stdio part_000 557-560, http part_001 99-102, websocket 197-200)
sendThrows(t) ==
  CASE t.kind = "stdio" -> ~isConnected(t) \/ t.process = "none"
    [] t.kind = "websocket" -> ~isConnected(t) \/ t.ws # "open"
    [] t.kind = "http" -> ~isConnected(t)

\* generateRequestId 310-312: `${this.serverId}-${++this.requestId}`.  The
\* server id is the same in every id of a session, so an id is written as
\* its number alone
\* (a variant that hands out the latest number again)
repeatRequestId(c) == IF c.requestId = 0 THEN 1 ELSE c.requestId

generateRequestId(c) == c.requestId + 1

\* send() up to its first suspension: the write (stdio, websocket) or the
\* fetch with its AbortController and abort timer (http 123-135) is started
sendStart(t, x) ==
  IF t.kind = "http"
  THEN [t EXCEPT !.abortController = x, !.abortTimers = @ \cup {x},
                 !.fetches = @ \cup {x}]
  ELSE [t EXCEPT !.sending = @ \cup {x}]

\* Transport.sendRequest for the fresh id x: timer, pending entry, send
transportSendRequest(t, x) ==
  LET t1 == [t EXCEPT !.pendingRequests = @ \cup {x}, !.timers = @ \cup {x}]
  IN  IF sendThrows(t1)
      THEN [t1 EXCEPT !.pendingRequests = @ \ {x}, !.timers = @ \ {x}]
      ELSE sendStart(t1, x)

\* the caller record once request x with method m has been issued
park(cs, t, x, m) ==
  [cs EXCEPT !.method[x] = m,
             !.outcome[x] = IF x \in t.pendingRequests THEN "parked" ELSE "sendError"]

(***************************************************************************)
(* Session: initial state (a freshly constructed MCPClient and Transport)  *)
(***************************************************************************)
NewTransport(k) ==
  [kind |-> k, state |-> Disconnected, lastError |-> "none", disposed |-> FALSE,
   pendingRequests |-> {}, timers |-> {},
   connectionTimeout |-> FALSE, performing |-> FALSE,
   process |-> "none", killed |-> FALSE, isClosing |-> FALSE,
   ws |-> "none", reconnectAttempts |-> 0, reconnectTimer |-> FALSE,
   abortController |-> NoCtl, abortTimers |-> {}, fetches |-> {},
   sending |-> {}]

NewClient ==
  [initialized |-> FALSE, capabilities |-> NoCapabilities,
   initializationPromise |-> "none", initPc |-> "idle", initResult |-> "none",
   requestId |-> 0, discovery |-> {}, tools |-> {}, resources |-> {}]

NoCallers ==
  [outcome |-> [x \in Ids |-> "none"], deliveries |-> [x \in Ids |-> 0],
   method |-> [x \in Ids |-> "none"], tool |-> [x \in Ids |-> "none"]]

\* advertised: the capabilities of the initialize result of the handshake;
\* notified: the initialized notification has reached the server;
\* notes: notifications/resources/updated frames the server has sent;
\* orphaned: the child process has outlived the disconnect() of its transport
NoServer ==
  [received |-> {}, answered |-> {}, extra |-> 0,
   advertised |-> NoCapabilities, notified |-> FALSE, notes |-> 0,
   orphaned |-> FALSE]

\* refused: the check of executeTool that turned the latest call down
\* ("notCapable", "notFound"), "none" when both checks let it pass
NoApi ==
  [connect |-> "idle", connectResult |-> "none", disconnect |-> "idle",
   refused |-> "none"]

(***************************************************************************)
(* MCPClient.connect  mcpClient.ts 91-105.  The program calls it once per  *)
(* client, right after constructing it (MCPConnectionPool.createConnection *)
(* protocol.ts 430-450).                                                   *)
(***************************************************************************)
\* lines 99-104, entered with the transport connected (record t): start
\* initialize() unless an initialization promise is already stored
BeginInitialize(t) ==
  IF client.initializationPromise = "none"
  THEN LET x == generateRequestId(client)
           t1 == transportSendRequest(t, x)
           cs1 == park(callers, t1, x, "initialize")
           c0 == [client EXCEPT !.initializationPromise = "pending",
                                !.requestId = x, !.initPc = "request"]
           c1 == IF x \in t1.pendingRequests THEN c0
                 ELSE finishInitialize(c0, "rejected")
       IN  /\ transport' = t1
           /\ callers' = cs1
           /\ client' = c1
           /\ api' = resumeConnect([api EXCEPT !.connect = "initialize"], c1)
  ELSE /\ transport' = t
       /\ api' = [api EXCEPT !.connect = "idle",
                             !.connectResult = client.initializationPromise]
       /\ UNCHANGED <<client, callers>>

\* performConnect() of each transport up to its first suspension:
\* stdio spawns the child (part_000 424), websocket opens a socket
\* (websocket.ts 47), http starts the health probe (part_001 56)
performConnectStart(t) ==
  LET t1 == [setState(t, Connecting) EXCEPT !.connectionTimeout = TRUE,
                                            !.performing = TRUE]
  IN  CASE t.kind = "stdio" -> [t1 EXCEPT !.process = "running", !.killed = FALSE]
        [] t.kind = "websocket" -> [t1 EXCEPT !.ws = "connecting"]
        [] t.kind = "http" -> t1

Connect ==
  /\ api.connect = "idle" /\ api.connectResult = "none"
  /\ api.disconnect = "idle" /\ ~transport.disposed
  /\ ~(isConnected(transport) /\ client.initialized)
  /\ IF isConnected(transport)
     THEN BeginInitialize(transport)
     ELSE /\ transport' = performConnectStart(transport)
          /\ api' = [api EXCEPT !.connect = "transport"]
          /\ UNCHANGED <<client, callers>>
  /\ UNCHANGED server

\* the transport-level connect ends: Transport.connectWithTimeout 46-60
endPerform(t) == [t EXCEPT !.performing = FALSE, !.connectionTimeout = FALSE]

\* performConnect succeeds: stdio readiness timer (part_000 499-505, 478),
\* http probe answered (part_001 57), websocket 'open' (websocket.ts 52-57)
PerformConnectOk ==
  /\ transport.performing
  /\ transport.kind = "stdio" => transport.process = "running"
  /\ transport.kind = "websocket" => transport.ws = "connecting"
  /\ LET t0 == handleConnect(endPerform(transport))
         t1 == IF transport.kind = "websocket"
               THEN [t0 EXCEPT !.ws = "open", !.reconnectAttempts = 0]
               ELSE t0
     IN  IF api.connect = "transport"
         THEN BeginInitialize(t1)
         ELSE transport' = t1 /\ UNCHANGED <<client, callers, api>>
  /\ UNCHANGED server

failConnect(a) ==
  IF a.connect = "transport"
  THEN [a EXCEPT !.connect = "idle", !.connectResult = "rejected"]
  ELSE a

\* performConnect fails: http probe (part_001 58-61), websocket 'error'
\* (websocket.ts 75-79; for a reconnect attempt also 159-164)
PerformConnectFail ==
  /\ transport.performing
  /\ transport.kind \in {"http", "websocket"}
  /\ transport.kind = "websocket" => transport.ws = "connecting"
  /\ transport' =
       IF transport.kind = "http"
       THEN handleError(endPerform(transport), "HTTP connection failed")
       ELSE [handleError(endPerform(transport), "WebSocket error") EXCEPT !.ws = "errored"]
  /\ api' = failConnect(api)
  /\ UNCHANGED <<client, callers, server>>

\* the timer of Transport.connectWithTimeout fires (base.ts 42-44): connect()
\* rejects, performConnect() keeps running
ConnectTimeout ==
  /\ transport.performing /\ transport.connectionTimeout
  /\ transport' =
       LET t1 == [transport EXCEPT !.connectionTimeout = FALSE]
       IN  IF /\ transport.kind = "websocket" /\ api.connect # "transport"
              /\ transport.reconnectAttempts >= maxReconnectAttempts
           THEN handleError(t1, "reconnect failed")   \* websocket.ts 159-163
           ELSE t1
  /\ api' = failConnect(api)
  /\ UNCHANGED <<client, callers, server>>

(***************************************************************************)
(* Requests                                                                *)
(***************************************************************************)
\* ids still needed by the discovery that follows the initialized notification
Reserved(c) == IF c.initPc = "notify" THEN NumDiscovery(c.capabilities) ELSE 0

\* a request-shaped operation of the client (ping, tools/execute,
\* resources/get ...): MCPClient.sendRequest 274-294.  When the transport is
\* not connected the call throws before an id is generated.  Callers hold
\* the client only once its connect() has resolved (getConnection 406-421).
UserCall ==
  /\ api.connectResult = "resolved"
  /\ isConnected(transport)
  /\ client.requestId + Reserved(client) < MaxRequests
  /\ LET x == generateRequestId(client)
         t1 == transportSendRequest(transport, x)
     IN  /\ transport' = t1
         /\ callers' = park(callers, t1, x, "call")
         /\ client' = [client EXCEPT !.requestId = x]
  /\ UNCHANGED <<server, api>>

\* MCPClient.sendRequest 274-294 from inside a client method: the next id
\* is taken and the request with method m issued; name is the tool it names
issue(m, name) ==
  /\ client.requestId + Reserved(client) < MaxRequests
  /\ LET x == generateRequestId(client)
         t1 == transportSendRequest(transport, x)
     IN  /\ transport' = t1
         /\ callers' = [park(callers, t1, x, m) EXCEPT !.tool[x] = name]
         /\ client' = [client EXCEPT !.requestId = x]

\* executeTool 223-225 and 227-230: the two checks before the request
\* (a variant that takes every name for a known tool)
toolAssumed(c, name) == TRUE

toolKnown(c, name) == name \in c.tools

toolsExecuteAdvertised(c) == c.capabilities.toolsExecute

\* MCPClient.executeTool  mcpClient.ts 222-244, up to the await of the
\* request
ExecuteTool(name) ==
  /\ api.connectResult = "resolved"
  /\ IF ~toolsExecuteAdvertised(client)
     THEN /\ api' = [api EXCEPT !.refused = "notCapable"]
          /\ UNCHANGED <<transport, client, callers>>
     ELSE IF ~toolKnown(client, name)
     THEN /\ api' = [api EXCEPT !.refused = "notFound"]
          /\ UNCHANGED <<transport, client, callers>>
     ELSE IF ~isConnected(transport)
     THEN /\ api' = [api EXCEPT !.refused = "none"]
          /\ UNCHANGED <<transport, client, callers>>
     ELSE /\ issue("tools/execute", name)
          /\ api' = [api EXCEPT !.refused = "none"]
  /\ UNCHANGED server

\* MCPClient.listTools  mcpClient.ts 207-220 with discoverTools 155-166, up
\* to the await of the request.  It throws without the tools.list
\* capability, returns the cache when that is not empty, and otherwise runs
\* discoverTools, which catches the throw of sendRequest when the transport
\* is not connected.
ListTools ==
  /\ api.connectResult = "resolved"
  /\ IF ~client.capabilities.toolsList \/ client.tools # {} \/ ~isConnected(transport)
     THEN UNCHANGED <<transport, client, callers>>
     ELSE issue("tools/list", "none")
  /\ UNCHANGED <<server, api>>

\* the remote end can take in / produce data
EndpointAlive(t) ==
  CASE t.kind = "stdio" -> t.process = "running"
    [] t.kind = "websocket" -> t.ws \in {"open", "closing"}
    [] t.kind = "http" -> TRUE

\* write callback without error: stdio sendRaw part_000 572-578,
\* websocket sendRaw websocket.ts 212-218
SendDone(x) ==
  /\ x \in transport.sending
  /\ EndpointAlive(transport)
  /\ transport' = [transport EXCEPT !.sending = @ \ {x}]
  /\ server' = [server EXCEPT !.received = @ \cup {x}]
  /\ UNCHANGED <<client, callers, api>>

\* a request whose send() rejected: Transport.sendRequest 185-189
sendRejected(t, x) ==
  [t EXCEPT !.pendingRequests = @ \ {x}, !.timers = @ \ {x}]

\* write callback with an error (the pipe or socket is gone)
SendFail(x) ==
  /\ x \in transport.sending
  /\ ~EndpointAlive(transport)
  /\ transport' = sendRejected([transport EXCEPT !.sending = @ \ {x}], x)
  /\ callers' = settle(callers, {x}, "sendError")
  /\ LET c1 == afterSettled(client, callers, {x}, FALSE, NoResult)
     IN  client' = c1 /\ api' = resumeConnect(api, c1)
  /\ UNCHANGED server

\* inbound frames can still be read: stdio readline lives until cleanup(),
\* the websocket until it closes
InboundOpen(t) ==
  CASE t.kind = "stdio" -> t.process # "none"
    [] t.kind = "websocket" -> t.ws \in {"open", "closing"}
    [] t.kind = "http" -> FALSE

\* a response frame for a request the server has received arrives on the
\* stream (stdio 'line' part_000 437-441, websocket 'message' 59-61)
\* the server's bookkeeping when it sends a response frame with id y
answer(sv, y) ==
  IF y \in sv.received \ sv.answered
  THEN [sv EXCEPT !.answered = @ \cup {y}]
  ELSE [sv EXCEPT !.extra = @ + 1]

CanAnswer(sv, y) == y \in sv.received \ sv.answered \/ sv.extra < MaxExtraFrames

\* the result of the initialize request carries the server's capabilities;
\* it counts as the handshake when the session takes the frame in (t: the
\* transport that handles it)
advertise(sv, t, y, isErr, caps) ==
  IF /\ callers.method[y] = "initialize" /\ ~isErr
     /\ y \in t.pendingRequests /\ callers.outcome[y] = "parked"
  THEN [sv EXCEPT !.advertised = caps]
  ELSE sv

ServerRespond(y, isErr) ==
  /\ InboundOpen(transport)
  /\ y \in server.received /\ CanAnswer(server, y)
  /\ \E res \in Results(y) :
       /\ server' = advertise(answer(server, y), transport, y, isErr, res.caps)
       /\ ReceiveResponse(transport, y, isErr, res)

\* a response frame whose id the session never issued
ServerUnsolicited(y) ==
  /\ InboundOpen(transport)
  /\ y > client.requestId /\ CanAnswer(server, y)
  /\ server' = answer(server, y)
  /\ ReceiveResponse(transport, y, FALSE, NoResult)

\* a line that is not JSON, or a frame validateMessage throws on, arrives on
\* the stream: the catch of handleMessage (89-92) logs and emits 'error',
\* which the client passes on (mcpClient.ts 74-76)
MalformedFrame ==
  /\ InboundOpen(transport)
  /\ server.extra < MaxExtraFrames
  /\ server' = [server EXCEPT !.extra = @ + 1]
  /\ UNCHANGED <<transport, client, callers, api>>

\* a notifications/resources/updated frame arrives (handleMessage 66-80,
\* 'notification' event): MCPClient.handleNotification 325-330 calls
\* discoverResources(), which issues resources/list when the transport is
\* connected and otherwise catches the throw of sendRequest
ServerNotification ==
  /\ InboundOpen(transport)
  /\ server.notes < MaxNotifications
  /\ server' = [server EXCEPT !.notes = @ + 1]
  /\ IF isConnected(transport)
     THEN issue("resources/list", "none")
     ELSE UNCHANGED <<transport, client, callers>>
  /\ UNCHANGED api

\* the request timer fires: Transport.sendRequest 174-177
RequestTimeout(x) ==
  /\ x \in transport.timers
  /\ transport' = [transport EXCEPT !.timers = @ \ {x}, !.pendingRequests = @ \ {x}]
  /\ callers' = deliver(settle(callers, {x}, "timeout"), x)
  /\ LET c1 == afterSettled(client, callers, {x}, FALSE, NoResult)
     IN  client' = c1 /\ api' = resumeConnect(api, c1)
  /\ UNCHANGED server

(***************************************************************************)
(* HttpTransport.send / sendHttpRequest  part_001 99-159                   *)
(***************************************************************************)
\* finally block of sendHttpRequest for the fetch of request x (155-158)
httpFinally(t, x) ==
  [t EXCEPT !.fetches = @ \ {x}, !.abortTimers = @ \ {x}, !.abortController = NoCtl]

\* send() of request x rejects: catch of send (111-114), then the catch of
\* Transport.sendRequest (185-189)
httpSendFailed(t, x, e) == sendRejected(handleError(httpFinally(t, x), e), x)

\* the POST of request x is answered with a valid response frame carrying
\* id y; send() feeds it to handleMessage (105-110)
HttpFetchOk(x, y, isErr) ==
  /\ transport.kind = "http" /\ x \in transport.fetches
  /\ LET sv == [server EXCEPT !.received = @ \cup {x}]
     IN  /\ CanAnswer(sv, y)
         /\ \E res \in Results(y) :
              /\ server' = advertise(answer(sv, y), transport, y, isErr, res.caps)
              /\ ReceiveResponse(httpFinally(transport, x), y, isErr, res)

\* the POST of request x fails (network error, status, content type, frame)
HttpFetchFail(x) ==
  /\ transport.kind = "http" /\ x \in transport.fetches
  /\ transport' = httpSendFailed(transport, x, "HTTP send failed")
  /\ callers' = settle(callers, {x}, "sendError")
  /\ LET c1 == afterSettled(client, callers, {x}, FALSE, NoResult)
     IN  client' = c1 /\ api' = resumeConnect(api, c1)
  /\ UNCHANGED server

\* the POST of request x is answered with a body that is not JSON or with
\* a frame validateMessage throws on (part_001 146-147): the throw leaves
\* sendHttpRequest (149-153) and is caught by send (111-114)
HttpMalformed(x) ==
  /\ transport.kind = "http" /\ x \in transport.fetches
  /\ transport' = httpSendFailed(transport, x, "HTTP send failed")
  /\ callers' = settle(callers, {x}, "sendError")
  /\ LET c1 == afterSettled(client, callers, {x}, FALSE, NoResult)
     IN  client' = c1 /\ api' = resumeConnect(api, c1)
  /\ server' = [server EXCEPT !.received = @ \cup {x}]

\* the abort timer installed for request x fires (125-127): it aborts the
\* controller stored in this.abortController, whichever request owns it.
\* The timer has the delay of the request timer of x, which was created
\* first, so it fires after that one.
HttpAbortTimeout(x) ==
  /\ transport.kind = "http"
  /\ x \in transport.abortTimers /\ x \notin transport.timers
  /\ LET y == transport.abortController
         t1 == [transport EXCEPT !.abortTimers = @ \ {x}]
     IN  IF y = NoCtl
         THEN transport' = t1 /\ UNCHANGED <<client, callers, api>>
         ELSE /\ transport' = httpSendFailed(t1, y, "HTTP send failed: Request timeout")
              /\ callers' = settle(callers, {y}, "sendError")
              /\ LET c1 == afterSettled(client, callers, {y}, FALSE, NoResult)
                 IN  client' = c1 /\ api' = resumeConnect(api, c1)
  /\ UNCHANGED server

(***************************************************************************)
(* initialize(), after the initialize response: the initialized            *)
(* notification (mcpClient.ts 128, 296-308) and discoverCapabilities       *)
(* (139-153)                                                               *)
(***************************************************************************)
\* discoverTools / discoverResources each issue one request
discoveryMethods(caps) ==
  (IF caps.toolsList THEN <<"tools/list">> ELSE <<>>) \o
  (IF caps.resourcesList THEN <<"resources/list">> ELSE <<>>)

RECURSIVE issueAll(_, _, _, _)
\* issue the requests ms one after the other, starting at id x;
\* r = [t, cs, ids]: transport, callers and the ids parked so far
issueAll(ms, x, r, i) ==
  IF i > Len(ms) THEN r
  ELSE LET t1 == transportSendRequest(r.t, x)
           cs1 == park(r.cs, t1, x, ms[i])
       IN  issueAll(ms, x + 1,
                    [t |-> t1, cs |-> cs1,
                     ids |-> IF x \in t1.pendingRequests THEN r.ids \cup {x} ELSE r.ids],
                    i + 1)

\* ok: the write / POST of the notification succeeds
SendInitialized(ok) ==
  /\ client.initPc = "notify"
  /\ IF ~isConnected(transport) \/ sendThrows(transport)
     THEN /\ ~ok
          /\ client' = finishInitialize(client, "rejected")
          /\ UNCHANGED <<transport, callers>>
     ELSE IF ~ok
     THEN /\ transport.kind # "http" => ~EndpointAlive(transport)
          /\ transport' = IF transport.kind = "http"
                          THEN handleError([transport EXCEPT !.abortController = NoCtl],
                                           "HTTP send failed")
                          ELSE transport
          /\ client' = finishInitialize(client, "rejected")
          /\ UNCHANGED callers
     ELSE /\ EndpointAlive(transport)
          /\ LET t0 == IF transport.kind = "http"
                       THEN [transport EXCEPT !.abortController = NoCtl]
                       ELSE transport
                 ms == discoveryMethods(client.capabilities)
                 r == issueAll(ms, generateRequestId(client),
                               [t |-> t0, cs |-> callers, ids |-> {}], 1)
                 c1 == [client EXCEPT !.requestId = @ + Len(ms), !.initPc = "discover",
                                      !.discovery = r.ids]
             IN  /\ transport' = r.t
                 /\ callers' = r.cs
                 /\ client' = IF r.ids = {} THEN finishInitialize(c1, "resolved") ELSE c1
  /\ api' = resumeConnect(api, client')
  /\ server' = [server EXCEPT !.notified = @ \/ ok]

(***************************************************************************)
(* StdioTransport: child process events  part_000 444-465, 587-616         *)
(***************************************************************************)
cleanup(t) == [t EXCEPT !.isClosing = FALSE, !.process = "none", !.killed = FALSE]

\* the child exits on its own ('exit' event, 458-465).  During startup the
\* exit also rejects waitForProcessReady (508-511), performConnect cleans up
\* and connect() rejects (479-482).
ProcessExit ==
  /\ transport.kind = "stdio" /\ transport.process = "running"
  /\ ~transport.isClosing
  /\ LET t1 == handleError(transport, "Process exited")
     IN  IF transport.performing
         THEN /\ transport' = cleanup(endPerform(t1))
              /\ api' = failConnect(api)
         ELSE /\ transport' = [t1 EXCEPT !.process = "exited"]
              /\ UNCHANGED api
  /\ UNCHANGED <<client, callers, server>>

\* 'close' event of the exited child (448-456)
ProcessClose ==
  /\ transport.kind = "stdio" /\ transport.process = "exited"
  /\ transport' = cleanup(IF transport.isClosing THEN transport
                          ELSE handleError(transport, "Process exited"))
  /\ UNCHANGED <<client, callers, server, api>>

(***************************************************************************)
(* WebSocketTransport: socket events  websocket.ts 63-79, 111-169          *)
(***************************************************************************)
\* 'error' event of the open socket, or the pong timeout (122-126); the
\* socket's 'close' event follows
WsError ==
  /\ transport.kind = "websocket" /\ transport.ws = "open"
  /\ api.disconnect = "idle"
  /\ transport' = [handleError(transport, "WebSocket error") EXCEPT !.ws = "errored"]
  /\ UNCHANGED <<client, callers, server, api>>

\* handleUnexpectedDisconnect 142-169 (the 'disconnect' listener of the
\* client runs in between and is applied by the caller)
handleUnexpectedDisconnect(t) ==
  IF t.reconnectAttempts < maxReconnectAttempts
  THEN [setState(t, Reconnecting) EXCEPT !.reconnectAttempts = @ + 1,
                                         !.reconnectTimer = TRUE]
  ELSE handleError(setState(t, Disconnected), "reconnect failed")

\* 'close' handler 63-73: both branches emit 'disconnect'
onWsClose(t) ==
  IF t.state = Connected THEN handleUnexpectedDisconnect(t) ELSE handleDisconnect(t)

\* the socket closes without disconnect() having asked for it
WsClose ==
  /\ transport.kind = "websocket" /\ transport.ws \in {"open", "errored"}
  /\ api.disconnect = "idle"
  /\ transport' = [onWsClose(transport) EXCEPT !.ws = "closed"]
  /\ client' = onTransportDisconnect(client, transport)
  /\ UNCHANGED <<callers, server, api>>

\* the reconnect timer fires (155-165): this.connect()
WsReconnect ==
  /\ transport.kind = "websocket" /\ transport.reconnectTimer
  /\ ~transport.performing
  /\ transport' =
       LET t1 == [transport EXCEPT !.reconnectTimer = FALSE]
       IN  IF isConnected(t1) THEN t1 ELSE performConnectStart(t1)
  /\ UNCHANGED <<client, callers, server, api>>

(***************************************************************************)
(* disconnect() of each transport, up to its first suspension.             *)
(* Result: the transport, whether 'disconnect' was emitted, whether the    *)
(* call now waits (child exit / close frame), the request whose fetch was  *)
(* aborted (http).                                                         *)
(*   stdio part_000 515-555, http part_001 89-97, websocket 171-195        *)
(***************************************************************************)
disconnectSync(t) ==
  CASE t.kind = "stdio" ->
         IF ~isConnected(t) /\ t.process = "none"
         THEN [t |-> t, emitted |-> FALSE, waiting |-> FALSE, aborted |-> NoCtl]
         ELSE LET t1 == [setState(t, Disconnected) EXCEPT !.isClosing = TRUE]
              IN  IF t.process # "none" /\ ~t.killed
                  THEN \* SIGTERM, then wait for 'exit' or for the 5 s timer
                       [t |-> [t1 EXCEPT !.killed = (t.process = "running")],
                        emitted |-> FALSE, waiting |-> TRUE, aborted |-> NoCtl]
                  ELSE [t |-> handleDisconnect(cleanup(t1)),
                        emitted |-> TRUE, waiting |-> FALSE, aborted |-> NoCtl]
    [] t.kind = "http" ->
         [t |-> handleDisconnect([t EXCEPT !.abortController = NoCtl]),
          emitted |-> TRUE, waiting |-> FALSE, aborted |-> t.abortController]
    [] t.kind = "websocket" ->
         IF t.ws = "open"
         THEN \* close(1000), then wait for 'close' (readyState CLOSING)
              [t |-> [t EXCEPT !.ws = "closing"], emitted |-> FALSE,
               waiting |-> TRUE, aborted |-> NoCtl]
         ELSE [t |-> handleDisconnect([t EXCEPT !.ws = "none"]),
               emitted |-> TRUE, waiting |-> FALSE, aborted |-> NoCtl]

\* the fetch aborted by HttpTransport.disconnect rejects once the
\* synchronous part is over: send() catches it and calls handleError
afterAbort(t, y) ==
  IF y = NoCtl THEN t ELSE httpSendFailed(t, y, "HTTP send failed: Request timeout")

abortedIds(y) == IF y = NoCtl THEN {} ELSE {y}

\* Transport.dispose: timers cleared, every pending request rejected,
\* listeners removed  (base.ts 209-222)
baseDispose(t) ==
  [t EXCEPT !.connectionTimeout = FALSE, !.pendingRequests = {}, !.timers = {},
            !.disposed = TRUE]

\* A session as one value, for the steps below that run several methods
\* in a row
Session == [t |-> transport, c |-> client, cs |-> callers, a |-> api]

\* MCPClient.disconnect mcpClient.ts 185-188, up to the first suspension of
\* the transport's disconnect()
clientDisconnect(s) ==
  LET done(r, c2) ==
        [t |-> afterAbort(r.t, r.aborted),
         c |-> c2,
         cs |-> settle(s.cs, abortedIds(r.aborted), "sendError"),
         a |-> resumeConnect([s.a EXCEPT !.disconnect =
                                IF r.waiting THEN "closing" ELSE "idle"], c2)]
      listeners(r, c0) ==
        done(r, afterSettled(IF r.emitted THEN onTransportDisconnect(c0, s.t) ELSE c0,
                             s.cs, abortedIds(r.aborted), FALSE, NoResult))
  IN  listeners(disconnectSync(s.t), [s.c EXCEPT !.initializationPromise = "none"])

\* the wait inside disconnect() ends and disconnect() runs to completion:
\* stdio: 'exit' of the child or the 5 s timer with SIGKILL, then cleanup and
\*        handleDisconnect (part_000 529-553);
\* websocket: the 'close' event, handled first by the 'close' listener
\*        (websocket.ts 63-73), then lines 190-194.  The 5 s timer of the
\*        websocket wait is not modelled: the close handshake completes.
disconnectFinish(s) ==
  LET t1 == IF s.t.kind = "stdio"
            THEN handleDisconnect(cleanup(s.t))
            ELSE handleDisconnect([onWsClose(s.t) EXCEPT !.ws = "none"])
  IN  [s EXCEPT !.t = t1, !.c = onTransportDisconnect(s.c, s.t),
                !.a = [s.a EXCEPT !.disconnect = "idle"]]

\* MCPClient.dispose mcpClient.ts 381-388: disconnect() (not awaited), then
\* dispose() of the transport (stdio part_000 646-651, http part_001 305-316,
\* websocket 278-290), which ends in Transport.dispose
clientDispose(s) ==
  LET done(s1, r2, c2) ==
        [t |-> baseDispose(r2.t),
         c |-> c2,
         cs |-> settle(s1.cs, s1.t.pendingRequests, "disposed"),
         a |-> resumeConnect(s1.a, c2)]
      listeners(s1, r2) ==
        done(s1, r2, afterSettled(IF r2.emitted THEN onTransportDisconnect(s1.c, s1.t)
                                  ELSE s1.c,
                                  s1.cs, s1.t.pendingRequests, FALSE, NoResult))
      transportDispose(s1) ==
        listeners(s1, IF s.t.kind = "websocket"
                      THEN [t |-> [s1.t EXCEPT !.ws = "none"], emitted |-> FALSE,
                            waiting |-> FALSE, aborted |-> NoCtl]
                      ELSE disconnectSync(s1.t))
  IN  transportDispose(clientDisconnect(s))

SetSession(s) ==
  /\ transport' = s.t
  /\ client' = s.c
  /\ callers' = s.cs
  /\ api' = s.a

(***************************************************************************)
(* Tearing a session down: MCPConnectionPool.disconnect protocol.ts        *)
(* 491-496 (and renewConnection 569-570) await client.disconnect() and     *)
(* call client.dispose() as soon as it has completed.                      *)
(***************************************************************************)
Disconnect ==
  /\ api.disconnect = "idle" /\ ~transport.disposed
  /\ LET s1 == clientDisconnect(Session)
     IN  SetSession(IF s1.a.disconnect = "closing" THEN s1 ELSE clientDispose(s1))
  /\ UNCHANGED server

\* the 5 s timer of StdioTransport.disconnect sends SIGKILL (part_000
\* 529-534): only to a child whose killed flag is not set, and kill('SIGTERM')
\* has set that flag of a running child (526)
forceKill(t) == t.process # "none" /\ ~t.killed

\* exited: the wait ended with the 'exit' event of the child (stdio) or the
\* 'close' event of the socket (websocket); otherwise the 5 s timer of the
\* stdio wait fired, and a child that is still running and is not sent
\* SIGKILL lives on
DisconnectFinish ==
  /\ api.disconnect = "closing"
  /\ \E exited \in BOOLEAN :
       /\ transport.kind # "stdio" => exited
       /\ exited => transport.process # "exited"
       /\ server' = [server EXCEPT !.orphaned =
                       /\ ~exited
                       /\ transport.process = "running"
                       /\ ~forceKill(transport)]
  /\ SetSession(clientDispose(disconnectFinish(Session)))

(***************************************************************************)
(* MCPConnectionPool (types/protocol.ts 359-694) and the manager           *)
(* operations that borrow sessions from it (manager.ts)                    *)
(***************************************************************************)
\* server ids known to the manager, and the transport each one configures
ServerIds == {"A", "B", "C"}
TransportOf(id) ==
  CASE id = "A" -> "stdio" [] id = "B" -> "http" [] OTHER -> "websocket"

\* concurrent manager operations
Callers == {"c1", "c2"}
\* clients alive at the same time, in all and of one server
MaxSessions == 3
MaxPerServer == 2
\* clock range (Date ticks)
MaxTime == 1
\* uses counted per pool entry
MaxUseCount == 2
\* transport and connect failures in one run
MaxFaults == 1
\* calls into the pool in one run (manager operations, dispose, healthCheck)
MaxCalls == 3

\* pool configuration (constructor protocol.ts 364-369, configure 667-685);
\* the model configures small values
maxConnections == 1
idleTimeout == 0
maxUseCount == 1

VARIABLES
  sessions,     \* the MCPClient objects constructed by the pool that are alive
  connections,  \* MCPConnectionPool.connections (a Map: insertion-ordered)
  connecting,   \* MCPConnectionPool.connecting: server id -> client
  disposed,     \* MCPConnectionPool.disposed
  now,          \* the clock
  ops,          \* the manager operation each caller is running
  renewals,     \* server ids with a renewConnection callback queued
  renewing,     \* the renewConnection call in progress for each server id
  faults,       \* failures that have happened so far
  calls,        \* calls into the pool so far
  events,       \* the events the pool emitted in the last step
  health        \* the healthCheck call in progress, or the last one

poolVars == <<sessions, connections, connecting, disposed, now, ops,
              renewals, renewing, faults, calls, events, health>>

\* a client is named by the server id it was constructed for and a number
\* that tells it from the other live clients of that id
SessionIds == ServerIds \X (1..MaxPerServer)
NoSession == <<"none", 0>>

\* ---- Map helpers (keys in insertion order) ------------------------------
Has(conns, id) == \E k \in 1..Len(conns) : conns[k].id = id
Get(conns, id) == conns[CHOOSE k \in 1..Len(conns) : conns[k].id = id]
Put(conns, e) ==
  IF Has(conns, e.id)
  THEN [k \in 1..Len(conns) |-> IF conns[k].id = e.id THEN e ELSE conns[k]]
  ELSE Append(conns, e)
Del(conns, id) == SelectSeq(conns, LAMBDA e : e.id # id)

\* ---- a pooled client ----------------------------------------------------
\* s: the session ([t, c, a] as above; the pool and the manager issue no
\* request that stays pending, so the session has no caller promises);
\* sid: the server id it was constructed for; renewed: constructed by
\* renewConnection, its pool listeners close over `${sid}-renewed` (566);
\* listening: the client still has its listeners; promise: the createConnection promise; waiter:
\* the caller whose enforceLimit awaits this client's disconnect
full(s) == [t |-> s.t, c |-> s.c, cs |-> NoCallers, a |-> s.a]
slim(s) == [t |-> s.t, c |-> s.c, a |-> s.a]
\* a disconnect() that is already waiting keeps waiting whatever a later
\* disconnect() or dispose() of the same client does
sticky(s0, s1) ==
  IF s0.a.disconnect = "closing" THEN [s1 EXCEPT !.a.disconnect = "closing"] ELSE s1
pooledDisconnect(s) == sticky(s, slim(clientDisconnect(full(s))))
pooledDisconnectFinish(s) == slim(disconnectFinish(full(s)))
pooledDispose(s) == sticky(s, slim(clientDispose(full(s))))
\* does a disconnect() called now suspend?
waits(s) == disconnectSync(s.t).waiting

NewPooled(id, rn) ==
  [sid |-> id, renewed |-> rn, listening |-> TRUE, promise |-> "pending",
   waiter |-> "none",
   s |-> [t |-> performConnectStart(NewTransport(TransportOf(id))),
          c |-> NewClient,
          a |-> [NoApi EXCEPT !.connect = "transport"]]]

\* a slot holding no client
NoClient ==
  [sid |-> "none", renewed |-> FALSE, listening |-> FALSE, promise |-> "none",
   waiter |-> "none",
   s |-> [t |-> NewTransport("stdio"), c |-> NewClient, a |-> NoApi]]

Live(sess) == {k \in SessionIds : sess[k].sid # "none"}
FreeSlots(sess, id) == {n \in 1..MaxPerServer : sess[<<id, n>>].sid = "none"}
NewSlot(sess, id) ==
  <<id, CHOOSE n \in FreeSlots(sess, id) : \A j \in FreeSlots(sess, id) : n <= j>>

InFlight(p) == p.s.a.connect = "transport"

\* nothing is left that could call the client back: no timer, child process
\* or socket
inert(p) ==
  /\ p.s.a.disconnect = "idle"
  /\ \/ p.s.t.disposed
     \/ /\ ~InFlight(p) /\ ~p.s.t.performing
        /\ ~isConnected(p.s.t) /\ p.s.t.process = "none"
        /\ p.s.t.ws \in {"none", "closed"} /\ ~p.s.t.reconnectTimer

\* no healthCheck running; pings: the <<server id, client>> pairs whose ping
\* is pending; verdicts: <<server id, client, healthy>> as set in `results`
NoHealth == [pc |-> "idle", pings |-> {}, verdicts |-> {}]

\* 635-636: healthCheck returns once every ping has been answered and every
\* disconnect it awaits is over
healthSettled(h, sess) ==
  IF h.pc = "running" /\ h.pings = {} /\ \A k \in SessionIds : sess[k].waiter # "health"
  THEN [h EXCEPT !.pc = "idle"]
  ELSE h

\* an inert client that neither the pool nor a caller refers to any more is
\* garbage: its slot is free again
collect(sess, conns, o, rs) ==
  [k \in SessionIds |->
     IF /\ inert(sess[k])
        /\ \A c \in Callers : o[c].client # k
        /\ \A j \in 1..Len(conns) : conns[j].client # k
        /\ \A id \in ServerIds : rs[id].pc = "idle" \/ k \notin {rs[id].old, rs[id].new}
        /\ \A x \in health.pings : x[2] # k
     THEN NoClient ELSE sess[k]]

Commit(sess, conns, o, rs) ==
  /\ sessions' = collect(sess, conns, o, rs)
  /\ connections' = conns
  /\ ops' = o
  /\ renewing' = rs

\* MCPClient.isConnected  mcpClient.ts 190-192
clientIsConnected(p) == isConnected(p.s.t) /\ p.s.c.initialized

\* does the client emit 'disconnect' during these steps?
disconnectEmits(s) == disconnectSync(s.t).emitted /\ ~s.t.disposed
disposeEmits(s) ==
  \/ disconnectEmits(s)
  \/ (s.t.kind # "websocket" /\ disconnectEmits(pooledDisconnect(s)))

\* MCPConnectionPool.handleClientDisconnect  455-461
handleClientDisconnect(conns, id) == Del(conns, id)

\* the pool listener of a client fires (registered in createConnection
\* 433-435 with the server id, not the client)
onClientDisconnect(conns, p, emitted) ==
  IF emitted /\ p.listening /\ ~p.renewed
  THEN handleClientDisconnect(conns, p.sid)
  ELSE conns

\* ... and the 'connectionLost' it emits then (459)
lostEvents(conns, p, emitted) ==
  IF emitted /\ p.listening /\ ~p.renewed /\ Has(conns, p.sid)
  THEN {<<"connectionLost", p.sid>>}
  ELSE {}

\* MCPConnectionPool.disconnect 487-499 after `await client.disconnect()`:
\* client.dispose(), which leaves the client without listeners
disposePooled(conns, p) ==
  LET e == disposeEmits(p.s)
  IN  [conns |-> onClientDisconnect(conns, p, e),
       p |-> [p EXCEPT !.s = pooledDispose(p.s), !.listening = FALSE],
       ev |-> lostEvents(conns, p, e)]

\* MCPConnectionPool.disconnect 487-499, up to its suspension or its end.
\* P = [conns, sess, ev]; w: who awaits it (a caller in enforceLimit, or
\* "sweep": the idle cleanup, "all": disconnectAll, "health": healthCheck)
poolDisconnect(P, id, w) ==
  IF ~Has(P.conns, id) THEN P
  ELSE LET i == Get(P.conns, id).client
           p == P.sess[i]
           conns1 == Del(P.conns, id)
           s1 == pooledDisconnect(p.s)
           e == disconnectEmits(p.s)
           conns2 == onClientDisconnect(conns1, p, e)
           ev2 == P.ev \cup lostEvents(conns1, p, e)
           p1 == [p EXCEPT !.s = s1]
       IN  IF waits(p.s)
           THEN [conns |-> conns2, sess |-> [P.sess EXCEPT ![i] = [p1 EXCEPT !.waiter = w]],
                 ev |-> ev2]
           ELSE LET d == disposePooled(conns2, p1)
                IN  [conns |-> d.conns, sess |-> [P.sess EXCEPT ![i] = d.p],
                     ev |-> ev2 \cup d.ev \cup {<<"connectionClosed", id>>}]

\* (a variant without the filter on inUse)
everyEntry(conns) == conns

\* enforceLimit 469-471: the entries that are not in use, in Map order
evictionCandidates(conns) == SelectSeq(conns, LAMBDA e : ~e.inUse)

\* MCPConnectionPool.enforceLimit 463-477: the entry to evict, or "none".
\* Array.prototype.sort is stable: among equal lastUsed the Map order wins.
enforceVictim(conns) ==
  LET cand == evictionCandidates(conns)
  IN  IF Len(conns) <= maxConnections \/ Len(cand) = 0 THEN "none"
      ELSE LET k == CHOOSE k \in 1..Len(cand) :
                      /\ \A m \in 1..Len(cand) : cand[k].lastUsed <= cand[m].lastUsed
                      /\ \A m \in 1..(k - 1) : cand[m].lastUsed > cand[k].lastUsed
           IN  cand[k].id

\* ---- manager operations ------------------------------------------------
Methods == {"executeTool", "getResource"}

Idle == [pc |-> "idle", sid |-> "none", client |-> NoSession]

NotRenewing == [pc |-> "idle", old |-> NoSession, new |-> NoSession]

\* MCPManager.executeTool 187-206 / getResource 234-250 up to the first
\* suspension inside MCPConnectionPool.getConnection 374-403
\* (a variant that takes the cached entry whatever its client reports)
anyExisting(id) == Has(connections, id)

\* 380-381: the cached entry, when its client reports connected
existingConnected(id) ==
  Has(connections, id) /\ clientIsConnected(sessions[Get(connections, id).client])

\* (a variant that never finds an open in progress)
connectingNone(id) == NoSession

\* 396: this.connecting.get(serverId)
connectingGet(id) == connecting[id]

\* (a variant that never sees the pool as disposed)
neverDisposed == FALSE

\* 375: if (this.disposed) throw
poolDisposed == disposed

GetConnection(c, id, m) ==
  /\ ops[c].pc = "idle"
  /\ m \in Methods
  /\ calls < MaxCalls /\ calls' = calls + 1
  /\ LET run == [pc |-> "executing", sid |-> id, client |-> NoSession]
     IN
     IF poolDisposed
     THEN UNCHANGED <<sessions, connections, connecting, ops, renewals, renewing>>
     ELSE IF existingConnected(id)
     THEN LET e == Get(connections, id)
          IN  /\ e.useCount < MaxUseCount
              /\ Commit(sessions,
                        Put(connections, [e EXCEPT !.lastUsed = now, !.inUse = TRUE,
                                                   !.useCount = @ + 1]),
                        [ops EXCEPT ![c] = [run EXCEPT !.client = e.client]],
                        renewing)
              \* 387-390: setImmediate(renewConnection)
              /\ renewals' = IF e.useCount + 1 > maxUseCount
                             THEN renewals \cup {id} ELSE renewals
              /\ UNCHANGED connecting
     ELSE IF connectingGet(id) # NoSession
     THEN /\ Commit(sessions, connections,
                    [ops EXCEPT ![c] = [run EXCEPT !.pc = "joined",
                                                   !.client = connectingGet(id)]],
                    renewing)
          /\ UNCHANGED <<connecting, renewals>>
     ELSE \* createConnection 429-450
          /\ Cardinality(Live(sessions)) < MaxSessions
          /\ FreeSlots(sessions, id) # {}
          /\ LET k == NewSlot(sessions, id)
             IN  /\ Commit([sessions EXCEPT ![k] = NewPooled(id, FALSE)], connections,
                           [ops EXCEPT ![c] = [run EXCEPT !.pc = "opening", !.client = k]],
                           renewing)
                 /\ connecting' = [connecting EXCEPT ![id] = k]
                 /\ UNCHANGED renewals
  /\ events' = {}
  /\ UNCHANGED <<disposed, now, faults, health>>

\* (a variant that resumes the opener and leaves the joiners waiting)
resumeOpener(o, i, ok) ==
  [c \in Callers |->
     IF o[c].client = i /\ o[c].pc = "opening"
     THEN IF ok THEN [o[c] EXCEPT !.pc = "executing"] ELSE Idle
     ELSE o[c]]

\* the callers waiting for the createConnection promise of session i resume
\* (the opener at 406 / 422, the joiners after 398)
resumeOpen(o, i, ok) ==
  [c \in Callers |->
     IF o[c].client = i /\ o[c].pc \in {"opening", "joined"}
     THEN IF ok THEN [o[c] EXCEPT !.pc = "executing"] ELSE Idle
     ELSE o[c]]

Opener(i) == CHOOSE c \in Callers : ops[c].pc = "opening" /\ ops[c].client = i

\* (a variant that stores the replacement without resetting the use count)
setRenewedKeepsCount(conns, id, k) ==
  Put(conns, [id |-> id, client |-> k, lastUsed |-> now, inUse |-> FALSE,
              useCount |-> maxUseCount + 1])

\* renewConnection 572-579: the renewed entry is stored
setRenewed(conns, id, k) ==
  Put(conns, [id |-> id, client |-> k, lastUsed |-> now, inUse |-> FALSE,
              useCount |-> 0])

\* renewConnection 568-579 once the new client is connected: disconnect the
\* old client, and when that is over dispose it and store the new one.
\* P = [conns, sess]; result [conns, sess, rs, ev]
replaceOld(P, id) ==
  LET r == renewing[id]
      old == P.sess[r.old]
      s1 == pooledDisconnect(old.s)
      e == disconnectEmits(old.s)
      conns1 == onClientDisconnect(P.conns, old, e)
      ev1 == lostEvents(P.conns, old, e)
      old1 == [old EXCEPT !.s = s1]
  IN  IF waits(old.s)
      THEN [conns |-> conns1, sess |-> [P.sess EXCEPT ![r.old] = old1],
            rs |-> [renewing EXCEPT ![id].pc = "closing"], ev |-> ev1]
      ELSE LET d == disposePooled(conns1, old1)
           IN  [conns |-> setRenewed(d.conns, id, r.new),
                sess |-> [P.sess EXCEPT ![r.old] = d.p],
                rs |-> [renewing EXCEPT ![id] = NotRenewing],
                ev |-> ev1 \cup d.ev \cup {<<"connectionRenewed", id>>}]

\* client.connect() of session i resolves (mcpClient.ts 91-105): transport
\* connected, handshake done.  If createConnection has not timed out its
\* promise resolves and getConnection 406-421 continues.
OpenOk(i) ==
  /\ InFlight(sessions[i])
  /\ LET p == sessions[i]
         t0 == handleConnect(endPerform(p.s.t))
         t1 == IF t0.kind = "websocket" THEN [t0 EXCEPT !.ws = "open"] ELSE t0
         s1 == [p.s EXCEPT !.t = t1, !.c.initialized = TRUE,
                           !.c.initializationPromise = "resolved",
                           !.a = [@ EXCEPT !.connect = "idle", !.connectResult = "resolved"]]
     IN  IF p.promise # "pending"
         THEN /\ Commit([sessions EXCEPT ![i] = [p EXCEPT !.s = s1]], connections, ops,
                        renewing)
              /\ events' = {}
              /\ UNCHANGED connecting
         ELSE IF p.renewed
         THEN \* renewConnection 566-579 continues
              /\ LET P == replaceOld([conns |-> connections,
                                      sess |-> [sessions EXCEPT ![i] =
                                                  [p EXCEPT !.s = s1, !.promise = "resolved"]]],
                                     p.sid)
                 IN  Commit(P.sess, P.conns, ops, P.rs) /\ events' = P.ev
              /\ UNCHANGED connecting
         ELSE LET c == Opener(i)
                  P0 == [conns |-> Put(connections,
                                       [id |-> p.sid, client |-> i, lastUsed |-> now,
                                        inUse |-> TRUE, useCount |-> 1]),
                         sess |-> [sessions EXCEPT ![i] =
                                     [p EXCEPT !.s = s1, !.promise = "resolved"]],
                         ev |-> {}]
                  v == enforceVictim(P0.conns)
                  P1 == IF v = "none" THEN P0 ELSE poolDisconnect(P0, v, c)
                  o1 == resumeOpen(ops, i, TRUE)
              IN  /\ Commit(P1.sess, P1.conns,
                            IF \E k \in SessionIds : P1.sess[k].waiter = c
                            THEN [o1 EXCEPT ![c].pc = "enforcing"]
                            ELSE o1,
                            renewing)
                  /\ events' = P1.ev
                  /\ connecting' = [connecting EXCEPT ![p.sid] = NoSession]
  /\ UNCHANGED <<disposed, now, renewals, faults, calls, health>>

\* createConnection rejects: getConnection 422-426, and the joiners fail too
\* (a renewConnection call ends at 581-583 instead)
rejectOpen(sess, i) ==
  IF sessions[i].renewed
  THEN /\ Commit(sess, connections, ops,
                 [renewing EXCEPT ![sessions[i].sid] = NotRenewing])
       /\ events' = {<<"renewalFailed", sessions[i].sid>>}
       /\ UNCHANGED connecting
  ELSE /\ connecting' = [connecting EXCEPT ![sessions[i].sid] = NoSession]
       /\ Commit(sess, connections, resumeOpen(ops, i, FALSE), renewing)
       /\ events' = {}

\* client.connect() of session i rejects: the transport fails to connect
\* (state Error), or the server refuses the handshake (transport stays
\* connected, mcpClient.ts 107-137)
OpenFail(i, how) ==
  /\ InFlight(sessions[i])
  /\ faults < MaxFaults /\ faults' = faults + 1
  /\ LET p == sessions[i]
         t0 == endPerform(p.s.t)
         t1 == CASE how = "handshake" ->
                      IF t0.kind = "websocket"
                      THEN [handleConnect(t0) EXCEPT !.ws = "open"]
                      ELSE handleConnect(t0)
                 [] how = "transport" /\ t0.kind = "stdio" ->
                      cleanup(handleError(t0, "Process exited"))
                 [] how = "transport" /\ t0.kind = "http" ->
                      handleError(t0, "HTTP connection failed")
                 [] OTHER -> [handleError(t0, "WebSocket error") EXCEPT !.ws = "errored"]
         s1 == [p.s EXCEPT !.t = t1,
                           !.c.initializationPromise =
                              IF how = "handshake" THEN "rejected" ELSE @,
                           !.a = [@ EXCEPT !.connect = "idle", !.connectResult = "rejected"]]
         sess == [sessions EXCEPT ![i] =
                    [p EXCEPT !.s = s1,
                              !.promise = IF @ = "pending" THEN "rejected" ELSE @]]
     IN  IF p.promise = "pending" THEN rejectOpen(sess, i)
         ELSE /\ Commit(sess, connections, ops, renewing)
              /\ events' = {}
              /\ UNCHANGED connecting
  /\ UNCHANGED <<disposed, now, renewals, calls, health>>

\* the timer of createConnection fires first (446-450): the promise rejects
\* while client.connect() is still running
OpenTimeout(i) ==
  /\ InFlight(sessions[i])
  /\ sessions[i].promise = "pending"
  /\ faults < MaxFaults /\ faults' = faults + 1
  /\ rejectOpen([sessions EXCEPT ![i].promise = "rejected"], i)
  /\ UNCHANGED <<disposed, now, renewals, calls, health>>

\* ---- what happens to a pooled session afterwards ------------------------
\* the transport of a connected session fails: stdio child exits (part_000
\* 458-465), http send fails (part_001 111-114), websocket 'error'
\* (websocket.ts 75-79).  handleError only: no 'disconnect' is emitted.
SessionError(i) ==
  /\ isConnected(sessions[i].s.t) /\ sessions[i].s.a.disconnect = "idle"
  /\ ~sessions[i].s.t.disposed
  /\ faults < MaxFaults /\ faults' = faults + 1
  /\ LET t == sessions[i].s.t
         t1 == CASE t.kind = "stdio" ->
                      [handleError(t, "Process exited") EXCEPT !.process = "exited"]
                 [] t.kind = "http" -> handleError(t, "HTTP send failed")
                 [] OTHER -> [handleError(t, "WebSocket error") EXCEPT !.ws = "errored"]
     IN  Commit([sessions EXCEPT ![i].s.t = t1], connections, ops, renewing)
  /\ events' = {}
  /\ UNCHANGED <<connecting, disposed, now, renewals, calls, health>>

\* 'close' of an exited child (part_000 448-456)
SessionProcessClose(i) ==
  /\ sessions[i].s.t.kind = "stdio" /\ sessions[i].s.t.process = "exited"
  /\ sessions[i].s.a.disconnect = "idle"
  /\ Commit([sessions EXCEPT ![i].s.t = cleanup(handleError(@, "Process exited"))],
            connections, ops, renewing)
  /\ events' = {}
  /\ UNCHANGED <<connecting, disposed, now, renewals, faults, calls, health>>

\* the socket of a websocket session closes on its own (websocket.ts 63-73):
\* 'disconnect' reaches the client and, through it, the pool
SessionClose(i) ==
  /\ sessions[i].s.t.kind = "websocket" /\ sessions[i].s.t.ws \in {"open", "errored"}
  /\ sessions[i].s.a.disconnect = "idle"
  /\ LET p == sessions[i]
     IN  /\ Commit([sessions EXCEPT ![i].s =
                      [@ EXCEPT !.t = [onWsClose(p.s.t) EXCEPT !.ws = "closed"],
                                !.c = onTransportDisconnect(p.s.c, p.s.t)]],
                   onClientDisconnect(connections, p, ~p.s.t.disposed), ops, renewing)
         /\ events' = lostEvents(connections, p, ~p.s.t.disposed)
         /\ IF p.s.t.ws = "open"
            THEN faults < MaxFaults /\ faults' = faults + 1
            ELSE UNCHANGED faults
  /\ UNCHANGED <<connecting, disposed, now, renewals, calls, health>>

\* client.disconnect() awaited by MCPConnectionPool.disconnect completes
\* (492), the client is disposed (496) and whoever awaited the eviction
\* goes on (getConnection 418-421)
SessionDisconnectFinish(i) ==
  /\ sessions[i].s.a.disconnect = "closing"
  /\ LET p == sessions[i]
         p1 == [p EXCEPT !.s = pooledDisconnectFinish(p.s), !.waiter = "none"]
         conns1 == onClientDisconnect(connections, p, ~p.s.t.disposed)
         d == disposePooled(conns1, p1)
         rn == \E id \in ServerIds : renewing[id].pc = "closing" /\ renewing[id].old = i
         r == renewing[p.sid]
         \* disconnectAll 506-507: its last disconnect has settled
         last == p.waiter = "all" /\ \A k \in SessionIds \ {i} : sessions[k].waiter # "all"
     IN  /\ Commit([sessions EXCEPT ![i] = d.p],
                   IF last THEN <<>>
                   ELSE IF rn THEN setRenewed(d.conns, p.sid, r.new) ELSE d.conns,
                   IF p.waiter \in Callers
                   THEN [ops EXCEPT ![p.waiter].pc = "executing"]
                   ELSE ops,
                   IF rn THEN [renewing EXCEPT ![p.sid] = NotRenewing] ELSE renewing)
         /\ events' = lostEvents(connections, p, ~p.s.t.disposed) \cup d.ev
                         \cup (IF rn THEN {<<"connectionRenewed", p.sid>>} ELSE {})
                         \cup (IF p.waiter # "none"
                               THEN {<<"connectionClosed", p.sid>>} ELSE {})
         \* healthCheck 628 / 632: the disconnect it awaited is over
         /\ health' = healthSettled(health, [sessions EXCEPT ![i] = d.p])
  /\ UNCHANGED <<connecting, disposed, now, renewals, faults, calls>>

\* MCPConnectionPool.releaseConnection 479-485
releaseConnection(conns, id) ==
  IF Has(conns, id)
  THEN Put(conns, [Get(conns, id) EXCEPT !.inUse = FALSE, !.lastUsed = now])
  ELSE conns

\* the session operation succeeds; the manager releases and returns
\* (manager.ts 197-201, 242-245)
ExecOk(c) ==
  /\ ops[c].pc = "executing"
  /\ clientIsConnected(sessions[ops[c].client])
  /\ Commit(sessions, releaseConnection(connections, ops[c].sid),
            [ops EXCEPT ![c] = Idle], renewing)
  /\ events' = {}
  /\ UNCHANGED <<connecting, disposed, now, renewals, faults, calls, health>>

\* the session operation fails; the manager logs and rethrows
\* (manager.ts 202-205, 246-249)
ExecFail(c) ==
  /\ ops[c].pc = "executing"
  /\ Commit(sessions, connections, [ops EXCEPT ![c] = Idle], renewing)
  /\ events' = {}
  /\ UNCHANGED <<connecting, disposed, now, renewals, faults, calls, health>>

\* ---- idle cleanup  protocol.ts 587-614 ----------------------------------
\* (a variant that does not look at inUse)
idleIgnoringUse(conns) ==
  SelectSeq(conns, LAMBDA e : now - e.lastUsed > idleTimeout)

\* 593-599: the entries to disconnect, in Map order
idleIds(conns) ==
  SelectSeq(conns, LAMBDA e : ~e.inUse /\ now - e.lastUsed > idleTimeout)

\* disconnect(serverId) called for each entry of es in turn, each up to its
\* suspension or its end (602-606, 502-504); w: who awaits them
RECURSIVE disconnectEach(_, _, _)
disconnectEach(P, es, w) ==
  IF es = <<>> THEN P
  ELSE disconnectEach(poolDisconnect(P, Head(es).id, w), Tail(es), w)

IdleCleanup ==
  /\ ~disposed
  /\ idleIds(connections) # <<>>
  /\ LET P == disconnectEach([conns |-> connections, sess |-> sessions, ev |-> {}],
                             idleIds(connections), "sweep")
     IN  Commit(P.sess, P.conns, ops, renewing) /\ events' = P.ev
  /\ UNCHANGED <<connecting, disposed, now, renewals, faults, calls, health>>

\* ---- dispose  protocol.ts 687-693, disconnectAll 501-508 -----------------
\* disposed is set and disconnect(serverId) is called for every entry; once
\* all of them have settled the Map is cleared (at once when none waits)
PoolDispose ==
  /\ ~disposed
  /\ calls < MaxCalls /\ calls' = calls + 1
  /\ disposed' = TRUE
  /\ LET P == disconnectEach([conns |-> connections, sess |-> sessions, ev |-> {}],
                             connections, "all")
     IN  /\ Commit(P.sess,
                   IF \E k \in SessionIds : P.sess[k].waiter = "all" THEN P.conns ELSE <<>>,
                   ops, renewing)
         /\ events' = P.ev
  /\ UNCHANGED <<connecting, now, renewals, faults, health>>

\* ---- healthCheck  protocol.ts 617-637 ------------------------------------
\* healthCheck is called: a ping is sent on the client of every entry
\* (620-622).  MCPClient.ping (mcpClient.ts 340-347) returns false at once
\* when the transport is not connected (sendRequest 275-277): the verdict
\* is set and the entry disconnected (623-628).
HealthCheck ==
  /\ health.pc = "idle"
  /\ calls < MaxCalls /\ calls' = calls + 1
  /\ LET down == SelectSeq(connections, LAMBDA e : ~isConnected(sessions[e.client].s.t))
         up == SelectSeq(connections, LAMBDA e : isConnected(sessions[e.client].s.t))
         P == disconnectEach([conns |-> connections, sess |-> sessions, ev |-> {}],
                             down, "health")
     IN  /\ Commit(P.sess, P.conns, ops, renewing)
         /\ events' = P.ev
         /\ health' = healthSettled(
                         [pc |-> "running",
                          pings |-> {<<up[j].id, up[j].client>> : j \in 1..Len(up)},
                          verdicts |-> {<<down[j].id, down[j].client, FALSE>> :
                                          j \in 1..Len(down)}],
                         P.sess)
  /\ UNCHANGED <<connecting, disposed, now, renewals, faults>>

\* the ping of client x[2], sent for entry x[1], is answered: a response
\* (true), or an error response, a timeout or a dead transport (false, and
\* then disconnect(x[1]) 626-628 of whatever entry the id has now)
PingDone(x, ok) ==
  /\ health.pc = "running" /\ x \in health.pings
  /\ LET h == [health EXCEPT !.pings = @ \ {x},
                             !.verdicts = @ \cup {<<x[1], x[2], ok>>}]
     IN  IF ok
         THEN /\ isConnected(sessions[x[2]].s.t)
              /\ Commit(sessions, connections, ops, renewing)
              /\ events' = {}
              /\ health' = healthSettled(h, sessions)
              /\ UNCHANGED faults
         ELSE /\ IF isConnected(sessions[x[2]].s.t)
                 THEN faults < MaxFaults /\ faults' = faults + 1
                 ELSE UNCHANGED faults
              /\ LET P == poolDisconnect([conns |-> connections, sess |-> sessions,
                                          ev |-> {}], x[1], "health")
                 IN  /\ Commit(P.sess, P.conns, ops, renewing)
                     /\ events' = P.ev
                     /\ health' = healthSettled(h, P.sess)
  /\ UNCHANGED <<connecting, disposed, now, renewals, calls>>

\* ---- renewal  protocol.ts 561-584 ---------------------------------------
\* the callback queued by getConnection 389 runs: renewConnection up to the
\* await of createConnection (566)
RenewConnection(id) ==
  /\ id \in renewals /\ renewing[id].pc = "idle"
  /\ renewals' = renewals \ {id}
  /\ IF Has(connections, id) /\ ~Get(connections, id).inUse
     THEN /\ Cardinality(Live(sessions)) < MaxSessions
          /\ FreeSlots(sessions, id) # {}
          /\ LET k == NewSlot(sessions, id)
             IN  Commit([sessions EXCEPT ![k] = NewPooled(id, TRUE)], connections, ops,
                        [renewing EXCEPT ![id] =
                           [pc |-> "opening", old |-> Get(connections, id).client,
                            new |-> k]])
     ELSE UNCHANGED <<sessions, connections, ops, renewing>>
  /\ events' = {}
  /\ UNCHANGED <<connecting, disposed, now, faults, calls, health>>

Tick ==
  /\ now < MaxTime
  /\ now' = now + 1
  /\ events' = {}
  /\ UNCHANGED <<sessions, connections, connecting, disposed, ops, renewals,
                 renewing, faults, calls, health>>

(***************************************************************************)
(* The manager's queries over the configured servers (manager.ts)          *)
(***************************************************************************)
VARIABLES
  servers,     \* manager.ts 11: the configured server ids, in insertion order
  inUse,       \* per server id: the pooled connection is marked in use
  query        \* the manager call in progress, its position and its result

managerVars == <<servers, inUse, query>>

MaxServers == 2

\* the orders in which up to MaxServers servers can have been loaded (84-95)
LoadOrders ==
  {s \in UNION {[1..n -> ServerIds] : n \in 0..MaxServers} :
     \A i, j \in DOMAIN s : i # j => s[i] # s[j]}

Configured(s) == {s[i] : i \in DOMAIN s}

NotAsked == [state |-> "none", items |-> {}]
NoOutcome == [kind |-> "none", id |-> "none", item |-> "none", value |-> FALSE]

NoQuery ==
  [op |-> "none", arg |-> "none", pc |-> "idle", list |-> <<>>, i |-> 0,
   stage |-> [id \in ServerIds |-> "none"], acc |-> {},
   seen |-> [id \in ServerIds |-> NotAsked], result |-> NoOutcome]

\* what a session's listing can hand back: the tools or resources it holds
Listings(op) ==
  IF op = "listResources" THEN SUBSET ServerResources ELSE SUBSET ToolNames

\* the call returns to its caller
returns(q, out) == [q EXCEPT !.pc = "returned", !.result = out]

\* the call's promise rejects
rejects(q) == returns(q, [NoOutcome EXCEPT !.kind = "rejected"])

\* the end of a loop over the servers: findTool 184, listResources 231
loopEnd(q) ==
  IF q.op = "findTool" THEN returns(q, [NoOutcome EXCEPT !.kind = "null"])
  ELSE returns(q, [NoOutcome EXCEPT !.kind = "list"])

\* the for loop moves to the next server, or ends (167, 216)
nextServer(q) ==
  IF q.i < Len(q.list) THEN [q EXCEPT !.i = @ + 1, !.pc = "acquiring"]
  ELSE loopEnd(q)

\* the catch block without a skip: the server's failure ends the call
failServer(q) == rejects(q)

\* the catch block of a loop body: log and go on (179-181, 226-228)
skipServer(q) ==
  nextServer([q EXCEPT !.seen[q.list[q.i]] = [state |-> "failed", items |-> {}]])

\* manager.ts 297-314, up to the first await
TestConnection(id) ==
  /\ query.pc = "idle"
  /\ query' =
       IF id \notin Configured(servers)
       THEN rejects([query EXCEPT !.op = "testConnection", !.arg = id])
       ELSE [query EXCEPT !.op = "testConnection", !.arg = id,
                          !.list = <<id>>, !.i = 1, !.pc = "acquiring"]
  /\ UNCHANGED <<servers, inUse>>

\* manager.ts 166-185, up to the first await
FindTool(name) ==
  /\ query.pc = "idle"
  /\ query' = nextServer([query EXCEPT !.op = "findTool", !.arg = name,
                                       !.list = servers])
  /\ UNCHANGED <<servers, inUse>>

\* manager.ts 209-232, up to the first await; the optional serverId is kept
\* only when it has a configuration (212-214)
ListResources(arg) ==
  /\ query.pc = "idle"
  /\ LET checked == IF arg = "all" THEN servers
                    ELSE IF arg \in Configured(servers) THEN <<arg>> ELSE <<>>
     IN  query' = nextServer([query EXCEPT !.op = "listResources",
                                           !.arg = arg, !.list = checked])
  /\ UNCHANGED <<servers, inUse>>

\* pool.getConnection settles for the server the loop is at (147, 169, 218,
\* 304): the connection is marked in use, or the promise rejects
AcquireSettle(ok) ==
  /\ query.pc = "acquiring"
  /\ LET id == query.list[query.i]
     IN  IF ok
         THEN /\ inUse' = [inUse EXCEPT ![id] = TRUE]
              /\ query' = [query EXCEPT !.pc = "using"]
         ELSE /\ inUse' = inUse
              /\ query' =
                   IF query.op = "testConnection"
                   THEN returns(query, [NoOutcome EXCEPT !.kind = "bool"])
                   ELSE skipServer(query)
  /\ UNCHANGED servers

\* client.ping settles (mcpClient.ts 340-347: true when answered, false on
\* any failure, never a rejection); release and return (306-309)
PingSettle(answered) ==
  /\ query.pc = "using"
  /\ query.op = "testConnection"
  /\ inUse' = [inUse EXCEPT ![query.arg] = FALSE]
  /\ query' = returns([query EXCEPT !.seen[query.arg] =
                         [state |-> IF answered THEN "answered" ELSE "failed",
                          items |-> {}]],
                      [NoOutcome EXCEPT !.kind = "bool", !.value = answered])
  /\ UNCHANGED servers

\* the listing of the server the loop is at throws (170, 219)
ListingFail ==
  /\ query.pc = "using"
  /\ query.op \in {"findTool", "listResources"}
  /\ query' = skipServer(query)
  /\ UNCHANGED <<servers, inUse>>

\* the listing of the server the loop is at comes back (170-178, 219-225)
ListingDone(items) ==
  /\ query.pc = "using"
  /\ query.op \in {"findTool", "listResources"}
  /\ items \in Listings(query.op)
  /\ LET id == query.list[query.i]
         q == [query EXCEPT !.seen[id] = [state |-> "listed", items |-> items]]
     IN  /\ inUse' = [inUse EXCEPT ![id] = FALSE]
         /\ query' =
              IF q.op = "findTool"
              THEN IF q.arg \in items
                   THEN returns(q, [NoOutcome EXCEPT !.kind = "found",
                                      !.id = id, !.item = q.arg])
                   ELSE nextServer(q)
              ELSE nextServer([q EXCEPT !.acc = @ \cup ({id} \X items)])
  /\ UNCHANGED servers

\* Promise.allSettled (160): the call returns once no task is under way
allSettled(q) ==
  IF \A id \in ServerIds : q.stage[id] \in {"none", "done", "failed"}
  THEN returns(q, [NoOutcome EXCEPT !.kind = "list"])
  ELSE q

\* manager.ts 142-164, up to the first await: one task per server (145)
ManagerListTools ==
  /\ query.pc = "idle"
  /\ query' = allSettled(
       [query EXCEPT !.op = "listTools", !.arg = "all", !.list = servers,
                     !.pc = "parallel",
                     !.stage = [id \in ServerIds |->
                                  IF id \in Configured(servers)
                                  THEN "acquiring" ELSE "none"]])
  /\ UNCHANGED <<servers, inUse>>

\* a task's catch block (155-157)
taskFails(q, id) ==
  allSettled([q EXCEPT !.stage[id] = "failed",
                       !.seen[id] = [state |-> "failed", items |-> {}]])

\* pool.getConnection settles for one task (147)
TaskAcquire(id, ok) ==
  /\ query.pc = "parallel"
  /\ query.stage[id] = "acquiring"
  /\ IF ok
     THEN /\ inUse' = [inUse EXCEPT ![id] = TRUE]
          /\ query' = [query EXCEPT !.stage[id] = "using"]
     ELSE /\ inUse' = inUse
          /\ query' = taskFails(query, id)
  /\ UNCHANGED servers

\* client.listTools throws in one task (148)
TaskListingFail(id) ==
  /\ query.pc = "parallel"
  /\ query.stage[id] = "using"
  /\ query' = taskFails(query, id)
  /\ UNCHANGED <<servers, inUse>>

\* client.listTools comes back in one task (148-154)
TaskListingDone(id, items) ==
  /\ query.pc = "parallel"
  /\ query.stage[id] = "using"
  /\ items \in Listings(query.op)
  /\ inUse' = [inUse EXCEPT ![id] = FALSE]
  /\ query' = allSettled(
       [query EXCEPT !.stage[id] = "done",
                     !.seen[id] = [state |-> "listed", items |-> items],
                     !.acc = @ \cup ({id} \X items)])
  /\ UNCHANGED servers

\* the caller takes the result; the manager is ready for the next call
QueryReturn ==
  /\ query.pc = "returned"
  /\ query' = NoQuery
  /\ UNCHANGED <<servers, inUse>>

\* no manager call under way, no server loaded
ManagerIdle ==
  /\ servers = <<>>
  /\ inUse = [id \in ServerIds |-> FALSE]
  /\ query = NoQuery

(***************************************************************************)
(* Inbound frames: Transport.validateMessage and the dispatch of           *)
(* Transport.handleMessage (base.ts 66-136)                                *)
(***************************************************************************)
VARIABLES
  frame,       \* the parsed JSON object of an inbound line, by its fields
  verdict      \* what handleMessage made of it

frameVars == <<frame, verdict>>

\* The fields validateMessage looks at, each by the cases it tells apart:
\*   jsonrpc  "2.0", another version, absent
\*   method   absent, a string, the empty string, a value of another type
\*   id       absent, a number other than 0, the number 0, a string, a value
\*            of another type
\*   result   absent, present
\*   error    absent, an object with numeric code and string message, an
\*            object without them
Frames ==
  [jsonrpc : {"2.0", "1.0", "absent"},
   method : {"absent", "string", "empty", "other"},
   id : {"absent", "number", "zero", "string", "other"},
   result : {"absent", "present"},
   error : {"absent", "valid", "invalid"}]

NoVerdict == [done |-> FALSE, thrown |-> FALSE, events |-> {}]

\* JavaScript truthiness of message.method and of message.id (108, 118, 130)
hasMethod(f) == f.method \in {"string", "other"}
hasId(f) == f.id \in {"number", "string", "other"}

\* message.result !== undefined || message.error !== undefined (118)
hasOutcome(f) == f.result # "absent" \/ f.error # "absent"

\* validateMessage 99-136: TRUE when it returns, FALSE when it throws
validateMessage(f) ==
  /\ f.jsonrpc = "2.0"
  /\ hasMethod(f) /\ hasId(f)
       => f.method = "string" /\ f.id \in {"number", "string"}
  /\ hasId(f) /\ hasOutcome(f)
       => f.id \in {"number", "string"} /\ f.error # "invalid"
  /\ hasMethod(f) /\ ~hasId(f) => f.method = "string"

\* a validation that lets every frame pass
validateNothing(f) == TRUE

\* the event of the kind of the frame, 78-87
kindEvents(f) ==
  IF hasMethod(f) /\ ~hasId(f) THEN {"notification"}
  ELSE IF hasMethod(f) /\ hasId(f) THEN {"request"}
  ELSE IF hasId(f) /\ hasOutcome(f) THEN {"response"}
  ELSE {}

\* handleMessage 66-97 for one line that parses to frame
HandleMessage ==
  /\ ~verdict.done
  /\ verdict' =
       IF validateMessage(frame)
       THEN [done |-> TRUE, thrown |-> FALSE,
             events |-> {"message"} \cup kindEvents(frame)]
       ELSE [done |-> TRUE, thrown |-> TRUE, events |-> {"error"}]
  /\ UNCHANGED frame

\* the next line arrives
NextFrame ==
  /\ verdict.done
  /\ frame' \in Frames
  /\ verdict' = NoVerdict

\* no frame under examination
FramesIdle ==
  /\ frame = [jsonrpc |-> "absent", method |-> "absent", id |-> "absent",
              result |-> "absent", error |-> "absent"]
  /\ verdict = NoVerdict

(***************************************************************************)
(* Tool arguments: ToolExecutor.validateArgs / validateProperty and the    *)
(* two ways to a tools/execute request (mcpClient.ts 222-244, 405-549)     *)
(***************************************************************************)
VARIABLES
  schema,      \* the inputSchema of the tool that is called
  args,        \* the arguments of the call, field by field
  outcome      \* how the call ended

argVars == <<schema, args, outcome>>

Fields == {"text", "count"}

\* type "none": the schema has no type, or one that is not 'object';
\* a property of type "none" is not among schema.properties
Schemas ==
  [type : {"object", "none"},
   required : SUBSET Fields,
   properties : [Fields -> {"none", "string", "number"}]]

\* a field of the arguments: absent, a string that is not a number, a
\* string of digits, a number
Values == {"absent", "word", "digits", "number"}

Arguments == [Fields -> Values]

NoEnd == [by |-> "none", failed |-> FALSE, errors |-> {}, sent |-> FALSE,
               sentArgs |-> [f \in Fields |-> "absent"]]

\* validateProperty 510-549 for the types string and number: String(value)
\* and Number(value); "NaN" stands for the throw of 'Expected number'
validateProperty(value, type) ==
  CASE type = "string" -> IF value = "number" THEN "digits" ELSE value
    [] type = "number" -> IF value = "word" THEN "NaN" ELSE "number"
    [] OTHER -> value

\* the required names that are not in args (475-481)
missingErrors(s, a) == {<<"missing", f>> : f \in {g \in s.required : a[g] = "absent"}}

\* the properties whose value validateProperty throws on (484-494)
invalidErrors(s, a) ==
  {<<"invalid", f>> : f \in {g \in Fields :
      /\ s.properties[g] # "none" /\ a[g] # "absent"
      /\ validateProperty(a[g], s.properties[g]) = "NaN"}}

\* validateArgs 465-508: the errors it throws with (none: it returns), and
\* the arguments it returns: converted where the schema has the property,
\* passed through otherwise (500-505)
validateArgs(s, a) ==
  IF s.type # "object"
  THEN [errors |-> {}, value |-> a]
  ELSE [errors |-> missingErrors(s, a) \cup invalidErrors(s, a),
        value |-> [f \in Fields |->
                     IF s.properties[f] # "none" /\ a[f] # "absent"
                     THEN validateProperty(a[f], s.properties[f])
                     ELSE a[f]]]

\* ToolExecutor.executeTool 405-463 for a tool findTool has found, without
\* cancellation: a throw of validateArgs is caught and reported (455-462),
\* otherwise the manager passes the validated arguments to
\* MCPClient.executeTool, which sends the request
ExecutorExecuteTool ==
  /\ outcome.by = "none"
  /\ LET v == validateArgs(schema, args)
     IN  outcome' =
           IF v.errors # {}
           THEN [NoEnd EXCEPT !.by = "executor", !.failed = TRUE,
                                   !.errors = v.errors]
           ELSE [NoEnd EXCEPT !.by = "executor", !.sent = TRUE,
                                   !.sentArgs = v.value]
  /\ UNCHANGED <<schema, args>>

\* MCPClient.executeTool 222-244 on a session that is capable and has the
\* tool in its cache: the arguments go into the request as they are
\* (232-237); MCPManager.executeTool (manager.ts 187-206) does the same
ClientExecuteTool ==
  /\ outcome.by = "none"
  /\ outcome' = [NoEnd EXCEPT !.by = "client", !.sent = TRUE, !.sentArgs = args]
  /\ UNCHANGED <<schema, args>>

\* the next call, of a tool with any schema and with any arguments
NextCall ==
  /\ outcome.by # "none"
  /\ schema' \in Schemas
  /\ args' \in Arguments
  /\ outcome' = NoEnd

\* no call under way
ArgsIdle ==
  /\ schema = [type |-> "none", required |-> {},
               properties |-> [f \in Fields |-> "none"]]
  /\ args = [f \in Fields |-> "absent"]
  /\ outcome = NoEnd

\* what a step of the single session leaves alone
besidesSession == <<poolVars, managerVars, frameVars, argVars>>

\* what a step of the pool leaves alone
besidesPool == <<sessionVars, managerVars, frameVars, argVars>>

\* what a step of the manager's queries leaves alone
besidesManager == <<sessionVars, poolVars, frameVars, argVars>>

\* what a step of the frame handling leaves alone
besidesFrames == <<sessionVars, poolVars, managerVars, argVars>>

\* what a step of a tool call leaves alone
besidesArgs == <<sessionVars, poolVars, managerVars, frameVars>>

\* a freshly constructed client and transport, of any kind; no pool
SessionInit ==
  /\ transport \in {NewTransport(k) : k \in TransportKinds}
  /\ client = NewClient
  /\ callers = NoCallers
  /\ server = NoServer
  /\ api = NoApi
  /\ sessions = [k \in SessionIds |-> NoClient]
  /\ connections = <<>>
  /\ connecting = [id \in ServerIds |-> NoSession]
  /\ disposed = FALSE
  /\ now = 0
  /\ ops = [c \in Callers |-> Idle]
  /\ renewals = {}
  /\ renewing = [id \in ServerIds |-> NotRenewing]
  /\ faults = 0
  /\ calls = 0
  /\ events = {}
  /\ health = NoHealth
  /\ ManagerIdle
  /\ FramesIdle
  /\ ArgsIdle

\* a freshly constructed pool (protocol.ts 360-372) and manager; the
\* stand-alone session is not used
PoolInit ==
  /\ sessions = [k \in SessionIds |-> NoClient]
  /\ connections = <<>>
  /\ connecting = [id \in ServerIds |-> NoSession]
  /\ disposed = FALSE
  /\ now = 0
  /\ ops = [c \in Callers |-> Idle]
  /\ renewals = {}
  /\ renewing = [id \in ServerIds |-> NotRenewing]
  /\ faults = 0
  /\ calls = 0
  /\ events = {}
  /\ health = NoHealth
  /\ transport = NewTransport("stdio")
  /\ client = NewClient
  /\ callers = NoCallers
  /\ server = NoServer
  /\ api = NoApi
  /\ ManagerIdle
  /\ FramesIdle
  /\ ArgsIdle

(***************************************************************************)
(* The pool and its callers                                                *)
(***************************************************************************)
PoolNext ==
  \/ \E c \in Callers, id \in ServerIds, m \in Methods : GetConnection(c, id, m) /\ UNCHANGED besidesPool
  \/ \E i \in SessionIds : OpenOk(i) /\ UNCHANGED besidesPool
  \/ \E i \in SessionIds, how \in {"transport", "handshake"} : OpenFail(i, how) /\ UNCHANGED besidesPool
  \/ \E i \in SessionIds : OpenTimeout(i) /\ UNCHANGED besidesPool
  \/ \E i \in SessionIds : SessionError(i) /\ UNCHANGED besidesPool
  \/ \E i \in SessionIds : SessionProcessClose(i) /\ UNCHANGED besidesPool
  \/ \E i \in SessionIds : SessionClose(i) /\ UNCHANGED besidesPool
  \/ \E i \in SessionIds : SessionDisconnectFinish(i) /\ UNCHANGED besidesPool
  \/ \E c \in Callers : ExecOk(c) /\ UNCHANGED besidesPool
  \/ \E c \in Callers : ExecFail(c) /\ UNCHANGED besidesPool
  \/ IdleCleanup /\ UNCHANGED besidesPool
  \/ PoolDispose /\ UNCHANGED besidesPool
  \/ HealthCheck /\ UNCHANGED besidesPool
  \/ \E x \in ServerIds \X SessionIds, ok \in BOOLEAN : PingDone(x, ok) /\ UNCHANGED besidesPool
  \/ \E id \in ServerIds : RenewConnection(id) /\ UNCHANGED besidesPool
  \/ Tick /\ UNCHANGED besidesPool

(***************************************************************************)
(* The session on its own                                                  *)
(***************************************************************************)
SessionNext ==
  \/ Connect /\ UNCHANGED besidesSession
  \/ PerformConnectOk /\ UNCHANGED besidesSession
  \/ PerformConnectFail /\ UNCHANGED besidesSession
  \/ ConnectTimeout /\ UNCHANGED besidesSession
  \/ UserCall /\ UNCHANGED besidesSession
  \/ \E name \in ToolNames : ExecuteTool(name) /\ UNCHANGED besidesSession
  \/ ListTools /\ UNCHANGED besidesSession
  \/ ServerNotification /\ UNCHANGED besidesSession
  \/ \E x \in Ids : SendDone(x) /\ UNCHANGED besidesSession
  \/ \E x \in Ids : SendFail(x) /\ UNCHANGED besidesSession
  \/ \E y \in Ids, e \in BOOLEAN : ServerRespond(y, e) /\ UNCHANGED besidesSession
  \/ \E y \in Ids : ServerUnsolicited(y) /\ UNCHANGED besidesSession
  \/ \E x \in Ids : RequestTimeout(x) /\ UNCHANGED besidesSession
  \/ \E x \in Ids, y \in Ids, e \in BOOLEAN : HttpFetchOk(x, y, e) /\ UNCHANGED besidesSession
  \/ \E x \in Ids : HttpFetchFail(x) /\ UNCHANGED besidesSession
  \/ \E x \in Ids : HttpAbortTimeout(x) /\ UNCHANGED besidesSession
  \/ \E ok \in BOOLEAN : SendInitialized(ok) /\ UNCHANGED besidesSession
  \/ ProcessExit /\ UNCHANGED besidesSession
  \/ ProcessClose /\ UNCHANGED besidesSession
  \/ WsError /\ UNCHANGED besidesSession
  \/ WsClose /\ UNCHANGED besidesSession
  \/ WsReconnect /\ UNCHANGED besidesSession
  \/ Disconnect /\ UNCHANGED besidesSession
  \/ MalformedFrame /\ UNCHANGED besidesSession
  \/ \E x \in Ids : HttpMalformed(x) /\ UNCHANGED besidesSession
  \/ DisconnectFinish /\ UNCHANGED besidesSession

vars == <<transport, client, callers, server, api,
         sessions, connections, connecting, disposed, now, ops,
         renewals, renewing, faults, calls, events, health,
         servers, inUse, query, frame, verdict, schema, args, outcome>>

\* a single session, the pool untouched
SpecSession == SessionInit /\ [][SessionNext]_vars

\* the pool and its callers
SpecPool == PoolInit /\ [][PoolNext]_vars

\* what is sure to run once it is due: a callback queued with setImmediate
\* (389) and the completion of a caller's operation.  New calls, failures
\* and the passing of time are up to the environment.
PoolProgress ==
  \/ \E id \in ServerIds : RenewConnection(id)
  \/ \E c \in Callers : ExecOk(c) \/ ExecFail(c)

PoolFairness == WF_vars(PoolProgress /\ UNCHANGED besidesPool)

\* the pool under a fair event loop
SpecPoolLive == PoolInit /\ [][PoolNext]_vars /\ PoolFairness

\* a session nobody uses
SessionIdle ==
  /\ transport = NewTransport("stdio")
  /\ client = NewClient
  /\ callers = NoCallers
  /\ server = NoServer
  /\ api = NoApi

\* a pool nobody uses
PoolIdle ==
  /\ sessions = [k \in SessionIds |-> NoClient]
  /\ connections = <<>>
  /\ connecting = [id \in ServerIds |-> NoSession]
  /\ disposed = FALSE
  /\ now = 0
  /\ ops = [c \in Callers |-> Idle]
  /\ renewals = {}
  /\ renewing = [id \in ServerIds |-> NotRenewing]
  /\ faults = 0
  /\ calls = 0
  /\ events = {}
  /\ health = NoHealth

\* a manager with its servers loaded in some order, nothing in use; the
\* session and the pool are not used
ManagerInit ==
  /\ servers \in LoadOrders
  /\ inUse = [id \in ServerIds |-> FALSE]
  /\ query = NoQuery
  /\ FramesIdle
  /\ ArgsIdle
  /\ SessionIdle
  /\ PoolIdle

ManagerNext ==
  \/ \E id \in ServerIds : TestConnection(id) /\ UNCHANGED besidesManager
  \/ \E name \in ToolNames : FindTool(name) /\ UNCHANGED besidesManager
  \/ \E arg \in ServerIds \cup {"all"} :
       ListResources(arg) /\ UNCHANGED besidesManager
  \/ ManagerListTools /\ UNCHANGED besidesManager
  \/ \E ok \in BOOLEAN : AcquireSettle(ok) /\ UNCHANGED besidesManager
  \/ \E answered \in BOOLEAN : PingSettle(answered) /\ UNCHANGED besidesManager
  \/ ListingFail /\ UNCHANGED besidesManager
  \/ \E items \in SUBSET (ToolNames \cup ServerResources) :
       ListingDone(items) /\ UNCHANGED besidesManager
  \/ \E id \in ServerIds, ok \in BOOLEAN :
       TaskAcquire(id, ok) /\ UNCHANGED besidesManager
  \/ \E id \in ServerIds : TaskListingFail(id) /\ UNCHANGED besidesManager
  \/ \E id \in ServerIds, items \in SUBSET ToolNames :
       TaskListingDone(id, items) /\ UNCHANGED besidesManager
  \/ QueryReturn /\ UNCHANGED besidesManager

\* the manager's queries over an abstract pool
SpecManager == ManagerInit /\ [][ManagerNext]_vars

\* every frame the cases distinguish, one after the other
FramesInit ==
  /\ frame \in Frames
  /\ verdict = NoVerdict
  /\ ManagerIdle
  /\ ArgsIdle
  /\ SessionIdle
  /\ PoolIdle

FramesNext ==
  \/ HandleMessage /\ UNCHANGED besidesFrames
  \/ NextFrame /\ UNCHANGED besidesFrames

\* the handling of inbound frames
SpecFrames == FramesInit /\ [][FramesNext]_vars

\* a call of a tool with any schema, with any arguments
ArgsInit ==
  /\ schema \in Schemas
  /\ args \in Arguments
  /\ outcome = NoEnd
  /\ ManagerIdle
  /\ FramesIdle
  /\ SessionIdle
  /\ PoolIdle

ArgsNext ==
  \/ ExecutorExecuteTool /\ UNCHANGED besidesArgs
  \/ ClientExecuteTool /\ UNCHANGED besidesArgs
  \/ NextCall /\ UNCHANGED besidesArgs

\* tool calls and the validation of their arguments
SpecArgs == ArgsInit /\ [][ArgsNext]_vars

(***************************************************************************)
(* Properties of the pool and the manager                                  *)
(***************************************************************************)
\* caller c ends its manager operation in this step
Ends(c) == ops[c].pc = "executing" /\ ops'[c].pc = "idle"

\* C1: whenever executeTool / getResource ends after a successful acquire,
\* with a result or with a failure, the pool entry of its server (if there
\* still is one) is not in use afterwards.
C1_ReleasedOnEveryPath ==
  [][ \A c \in Callers :
        Ends(c) => (Has(connections', ops[c].sid)
                      => ~Get(connections', ops[c].sid).inUse) ]_vars

(***************************************************************************)
(* Properties of the session                                               *)
(***************************************************************************)
Parked == {x \in Ids : callers.outcome[x] = "parked"}

\* C2: when the transport of a session fails or disconnects while requests
\* are pending, every pending request is failed in that very step; none
\* stays parked until its own timer fires.
C2_PendingFailedOnTransportLoss ==
  [][ (transport.state = Connected /\ transport'.state # Connected)
        => (transport'.pendingRequests = {}
            /\ \A x \in Parked : callers'.outcome[x] # "parked") ]_vars

\* C3: when a disconnect of the session completes ('disconnect' is emitted:
\* the socket closed, or a requested disconnect ran to its end), the
\* pending-request map is empty and no caller is still waiting.
C3_NoPendingAfterDisconnect ==
  [][ (WsClose \/ DisconnectFinish \/ (Disconnect /\ api'.disconnect = "idle"))
        => (transport'.pendingRequests = {}
            /\ \A x \in Ids : callers'.outcome[x] # "parked") ]_vars

\* C4: in every reachable state, initialized = true implies that the
\* transport is Connected.
C4_InitializedImpliesConnected ==
  client.initialized => transport.state = Connected

\* an inbound response frame with id y is handled in this step
ResponseStep(y) ==
  \/ \E e \in BOOLEAN : ServerRespond(y, e)
  \/ ServerUnsolicited(y)
  \/ \E x \in Ids, e \in BOOLEAN : HttpFetchOk(x, y, e)

\* C5: each parked caller has its resolve/reject invoked at most once by
\* its response or its timer, a settled caller keeps its outcome, a response
\* touches only the caller parked under its id, and a response whose id has
\* no pending entry settles nobody, raises no error and leaves connection
\* state, pending map, timers and client untouched.
C5_SettledAtMostOnce ==
  /\ [](\A x \in Ids : callers.deliveries[x] <= 1)
  /\ [][ \A x \in Ids : callers.outcome[x] \notin {"none", "parked"}
                          => callers'.outcome[x] = callers.outcome[x] ]_vars
  /\ [][ \A y \in Ids : ResponseStep(y) =>
           /\ \A x \in Ids \ {y} : /\ callers'.outcome[x] = callers.outcome[x]
                                   /\ callers'.deliveries[x] = callers.deliveries[x]
           /\ y \notin transport.pendingRequests =>
                /\ callers' = callers /\ client' = client /\ api' = api
                /\ transport'.state = transport.state
                /\ transport'.lastError = transport.lastError
                /\ transport'.pendingRequests = transport.pendingRequests
                /\ transport'.timers = transport.timers ]_vars

\* a request timed out, its response arrived afterwards and was dropped,
\* and another request was answered while it was parked
C5_Witness ==
  \E x \in Ids, y \in Ids :
    /\ x # y
    /\ callers.outcome[x] = "timeout" /\ x \in server.answered
    /\ callers.deliveries[x] = 1
    /\ callers.outcome[y] \in {"resolved", "rpcError"}

\* C6: when a request times out (its request timer, or on http the abort
\* timer of its POST, fires) on a Ready session, only that request fails:
\* the session is still Connected and initialized afterwards and no other
\* pending request is removed.
C6_TimeoutKeepsSessionReady ==
  [][ \A x \in Ids :
        ((RequestTimeout(x) \/ HttpAbortTimeout(x))
           /\ isConnected(transport) /\ client.initialized)
        => (/\ isConnected(transport') /\ client'.initialized
            /\ transport.pendingRequests \ {x} \subseteq transport'.pendingRequests) ]_vars

(***************************************************************************)
(* Properties of the pool                                                  *)
(***************************************************************************)
\* getConnection of caller c begins in this step
Begins(c) == ops[c].pc = "idle" /\ ops'[c].pc # "idle"

Opening(id) == {d \in Callers : ops[d].pc = "opening" /\ ops[d].sid = id}

Constructing(sess) == {k \in SessionIds : InFlight(sess[k]) /\ ~sess[k].renewed}

\* C7: a getConnection for a server id that begins while another
\* getConnection is opening a session for that id, and no connected entry
\* is cached, constructs no session and waits for the session being opened;
\* at any time at most one getConnection is opening a session for an id, and
\* the map holds at most one entry for an id.
C7_JoinsInFlightOpen ==
  /\ [](\A id \in ServerIds : Cardinality(Opening(id)) <= 1)
  /\ [](\A i \in 1..Len(connections), j \in 1..Len(connections) :
          connections[i].id = connections[j].id => i = j)
  /\ [][ \A c \in Callers :
          (Begins(c) /\ Opening(ops'[c].sid) # {} /\ ~existingConnected(ops'[c].sid))
          => /\ ops'[c].pc = "joined"
             /\ \A d \in Opening(ops'[c].sid) : ops'[c].client = ops[d].client
             /\ Constructing(sessions') \subseteq Constructing(sessions) ]_vars

\* one caller is opening a session and the other waits for the same one
C7_Witness ==
  \E c \in Callers, d \in Callers :
    /\ ops[c].pc = "opening" /\ ops[d].pc = "joined"
    /\ ops[c].sid = ops[d].sid /\ ops[c].client = ops[d].client

\* getConnection of caller c returns in this step, having admitted a new
\* session and enforced the cap
Admitted(c) == ops[c].pc \in {"opening", "enforcing"} /\ ops'[c].pc = "executing"

\* C8: when getConnection returns after admitting a new session, the map
\* holds at most maxConnections entries or every entry is in use.
C8_CapEnforced ==
  [][ \A c \in Callers :
        Admitted(c) => \/ Len(connections') <= maxConnections
                       \/ \A i \in 1..Len(connections') : connections'[i].inUse ]_vars

\* getConnection of caller c stores its new session and enforces the cap
Admits(c) == ops[c].pc = "opening" /\ ops'[c].pc \in {"executing", "enforcing"}

\* the entries of other servers that were in the map before the step
Others(id) == {i \in 1..Len(connections) : connections[i].id # id}

\* C9: in the step that admits a new session, an entry that leaves the map
\* was not in use and no other not-in-use entry had a smaller lastUsed, at
\* most one entry leaves, and when every entry is in use none leaves and the
\* new session is in the map whatever the cap.
C9_EvictsLeastRecentlyUsedIdle ==
  [][ \A c \in Callers :
        Admits(c) =>
          LET id == ops[c].sid
              gone == {i \in Others(id) : ~Has(connections', connections[i].id)}
          IN  /\ Cardinality(gone) <= 1
              /\ \A i \in gone :
                    /\ ~connections[i].inUse
                    /\ \A j \in Others(id) :
                          ~connections[j].inUse
                            => connections[i].lastUsed <= connections[j].lastUsed
              /\ (\A j \in Others(id) : connections[j].inUse)
                    => /\ gone = {}
                       /\ Has(connections', id)
                       /\ Get(connections', id).client = ops[c].client ]_vars

\* a caller waits for the eviction its admission caused, next to an entry
\* that was spared
C9_Witness ==
  \E c \in Callers, k \in SessionIds :
    /\ ops[c].pc = "enforcing" /\ sessions[k].waiter = c
    /\ Len(connections) >= 2
    /\ ~Has(connections, sessions[k].sid)

\* C10: a client that getConnection returns from the cache is connected
\* when it is returned; otherwise getConnection opens a session or waits
\* for one being opened.
C10_NoDisconnectedCachedSession ==
  [][ \A c \in Callers :
        Begins(c) =>
          \/ /\ ops'[c].pc = "executing"
             /\ clientIsConnected(sessions'[ops'[c].client])
             /\ Has(connections', ops'[c].sid)
             /\ Get(connections', ops'[c].sid).client = ops'[c].client
          \/ /\ ops'[c].pc \in {"opening", "joined"}
             /\ InFlight(sessions'[ops'[c].client]) ]_vars

\* a caller holds a session taken from the cache while an earlier session
\* of the same server, swept or evicted, is still closing
C10_Witness ==
  \E c \in Callers, k \in SessionIds :
    /\ ops[c].pc = "executing" /\ ops[c].client # k
    /\ sessions[k].sid = ops[c].sid /\ sessions[k].s.a.disconnect = "closing"
    /\ Has(connections, ops[c].sid)
    /\ Get(connections, ops[c].sid).client = ops[c].client
    /\ Get(connections, ops[c].sid).useCount >= 2


\* the renewal of server id goes past the open of its replacement in this
\* step (renewConnection 566 resolves or rejects)
RenewalProceeds(id) == renewing[id].pc = "opening" /\ renewing'[id].pc # "opening"

\* caller c holds the client k from before this step until after it
Holds(c, k) ==
  /\ ops[c].pc = "executing" /\ ops'[c].pc = "executing"
  /\ ops[c].client = k /\ ops'[c].client = k

\* C11: a session that a caller holds is still connected, and not disposed,
\* after any step of the renewal of its pool entry.
C11_RenewalSparesHeldSession ==
  [][ \A id \in ServerIds, c \in Callers :
        (RenewalProceeds(id) /\ Holds(c, renewing[id].old)
           /\ clientIsConnected(sessions[renewing[id].old]))
        => /\ clientIsConnected(sessions'[renewing[id].old])
           /\ ~sessions'[renewing[id].old].s.t.disposed ]_vars

\* ---- C12 ----------------------------------------------------------------
\* the renewal of entry id begins: renewConnection passes its test (564) and
\* starts to open the replacement
RenewalStarts(id) == renewing[id].pc = "idle" /\ renewing'[id].pc = "opening"

\* the renewal of entry id ends with the replacement stored (572-579)
RenewalSucceeds(id) ==
  /\ renewing[id].pc \in {"opening", "closing"} /\ renewing'[id].pc = "idle"
  /\ sessions'[renewing[id].new].promise = "resolved"

\* the renewal of entry id ends in its catch block (581-583)
RenewalFails(id) ==
  /\ renewing[id].pc = "opening" /\ renewing'[id].pc = "idle"
  /\ sessions'[renewing[id].new].promise # "resolved"

\* session k is gone for good: disposed and not connected, or already
\* forgotten by everybody
TornDown(sess, k) ==
  \/ sess[k].sid = "none"
  \/ sess[k].s.t.disposed /\ ~clientIsConnected(sess[k])

\* the disconnect of session k that ends in this step is also the one
\* disconnectAll waits for, which then empties the pool (506-507)
ShutsDown(k) == sessions[k].waiter = "all"

\* C12: a renewal first opens the replacement and leaves the old session
\* alone meanwhile; when the open succeeds the old session ends disconnected
\* and disposed and the entry holds the replacement, not in use, with
\* useCount 0 (unless the pool is shut down at that moment), and
\* connectionRenewed is emitted; when the open fails the
\* pool's entries and the old session are left as they were (a connected old
\* session stays connected) and renewalFailed is emitted.
C12_RenewalReplacesOrKeeps ==
  [][ \A id \in ServerIds :
        /\ RenewalStarts(id) =>
             /\ connections' = connections
             /\ sessions'[renewing'[id].old] = sessions[renewing'[id].old]
             /\ renewing'[id].old = Get(connections, id).client
        /\ RenewalSucceeds(id) =>
             /\ ~ShutsDown(renewing[id].old) =>
                  /\ Has(connections', id)
                  /\ Get(connections', id).client = renewing[id].new
                  /\ Get(connections', id).useCount = 0
                  /\ ~Get(connections', id).inUse
             /\ TornDown(sessions', renewing[id].old)
             /\ <<"connectionRenewed", id>> \in events'
        /\ RenewalFails(id) =>
             /\ connections' = connections
             /\ clientIsConnected(sessions[renewing[id].old])
                  => sessions'[renewing[id].old] = sessions[renewing[id].old]
             /\ <<"renewalFailed", id>> \in events'
             /\ <<"connectionRenewed", id>> \notin events' ]_vars

\* a renewal has just replaced a session that was in the pool
C12_Witness ==
  \E id \in ServerIds :
    /\ <<"connectionRenewed", id>> \in events
    /\ Has(connections, id) /\ Get(connections, id).useCount = 0
    /\ sessions[Get(connections, id).client].renewed

\* a renewal has just failed and the entry still holds a connected session
C12_FailureReached ==
  \E id \in ServerIds :
    /\ <<"renewalFailed", id>> \in events
    /\ Has(connections, id)
    /\ clientIsConnected(sessions[Get(connections, id).client])

\* ---- C13 ----------------------------------------------------------------
\* the entry of id has been used more often than maxUseCount allows
OverBudget(id) ==
  Has(connections, id) /\ Get(connections, id).useCount > maxUseCount

\* some open or some session has failed
SomethingFailed == faults > 0

\* nothing else is in progress: no open, no disconnect that waits, no exited
\* child whose 'close' is due, no entry due for the idle sweep
Settled ==
  /\ \A i \in SessionIds :
        /\ ~InFlight(sessions[i])
        /\ sessions[i].s.a.disconnect = "idle"
        /\ sessions[i].s.t.process # "exited"
  /\ idleIds(connections) = <<>>

Pooled(conns, i) == \E j \in 1..Len(conns) : conns[j].client = i

\* the child of stdio session i exits without disconnect() having been
\* called ('exit', part_000 458-465)
ChildExits(i) ==
  /\ sessions[i].s.t.kind = "stdio"
  /\ sessions[i].s.t.process = "running" /\ ~sessions[i].s.t.isClosing
  /\ sessions'[i].s.t.process = "exited"

\* ... and its 'close' has been handled too (part_000 448-456)
ChildReaped(i) ==
  /\ sessions[i].s.t.kind = "stdio" /\ sessions[i].s.t.process = "exited"
  /\ sessions'[i].sid = sessions[i].sid /\ sessions'[i].s.t.process = "none"

\* C14: when the child of a pooled stdio session exits unexpectedly the pool
\* emits connectionLost for its server, and once the exit has been handled
\* the entry no longer holds that session.
C14_ExitRemovesEntry ==
  [][ \A i \in SessionIds :
        /\ (ChildExits(i) /\ Pooled(connections, i))
             => <<"connectionLost", sessions[i].sid>> \in events'
        /\ (ChildReaped(i) /\ Pooled(connections, i))
             => ~Pooled(connections', i) ]_vars

\* ---- C15 ----------------------------------------------------------------
\* entry e is in use, or was used within idleTimeout
BusyOrRecent(e) == e.inUse \/ now - e.lastUsed <= idleTimeout

\* C15: a run of the idle sweep leaves every entry that is in use or was
\* used within idleTimeout in the pool as it is, with its session as it is,
\* and a session that the sweep disconnects belonged to an entry that was
\* neither.
C15_SweepSparesBusyAndRecent ==
  [][ IdleCleanup =>
        /\ \A j \in 1..Len(connections) :
             BusyOrRecent(connections[j]) =>
               /\ Has(connections', connections[j].id)
               /\ Get(connections', connections[j].id) = connections[j]
               /\ sessions'[connections[j].client] = sessions[connections[j].client]
        /\ \A i \in SessionIds :
             (clientIsConnected(sessions[i]) /\ ~clientIsConnected(sessions'[i]))
               => \E j \in 1..Len(connections) :
                    connections[j].client = i /\ ~BusyOrRecent(connections[j]) ]_vars

\* a sweep has just closed the idle http entry and left an older entry, which
\* is in use, in the pool (an eviction would have stored an entry used now)
C15_Witness ==
  \E id \in ServerIds :
    /\ TransportOf(id) = "http"
    /\ <<"connectionClosed", id>> \in events /\ ~Has(connections, id)
    /\ \E j \in 1..Len(connections) :
         /\ connections[j].inUse /\ now - connections[j].lastUsed > idleTimeout
         /\ clientIsConnected(sessions[connections[j].client])
    /\ \A j \in 1..Len(connections) : connections[j].lastUsed < now

\* ---- C16 ----------------------------------------------------------------
\* some caller calls getConnection
Acquires == \E c \in Callers, id \in ServerIds, m \in Methods : GetConnection(c, id, m)

\* dispose() is called
Disposes == ~disposed /\ disposed'

\* the disconnect of session k is over, or under way (the child has been
\* sent SIGTERM, the close frame has been sent)
ShutDown(sess, k) ==
  \/ sess[k].sid = "none"
  \/ ~clientIsConnected(sess[k])
  \/ sess[k].s.a.disconnect = "closing"

\* the disconnect of session i, which was waiting, completes
Closes(i) ==
  /\ sessions[i].s.a.disconnect = "closing"
  /\ sessions'[i].sid # "none" /\ sessions'[i].s.a.disconnect = "idle"

\* C16: once the pool is disposed a getConnection call starts no operation,
\* constructs no session and stores nothing; dispose() takes every entry out
\* of the pool and disconnects its session, at once or as soon as its child
\* process or socket has closed.
C16_DisposedPoolRejectsAndDisconnects ==
  [][ /\ (disposed /\ Acquires) =>
             /\ sessions' = sessions /\ connections' = connections
             /\ connecting' = connecting /\ ops' = ops /\ renewals' = renewals
      /\ Disposes =>
             \A j \in 1..Len(connections) :
               /\ ~Pooled(connections', connections[j].client)
               /\ ShutDown(sessions', connections[j].client)
      /\ \A i \in SessionIds : Closes(i) => ~clientIsConnected(sessions'[i]) ]_vars

\* dispose() has just closed the entries of the pool, among them one whose
\* session a caller still holds
C16_Witness ==
  /\ disposed /\ connections = <<>>
  /\ \E id \in ServerIds, c \in Callers :
       /\ <<"connectionClosed", id>> \in events
       /\ ops[c].pc = "executing" /\ ops[c].sid = id
       /\ ~clientIsConnected(sessions[ops[c].client])
       /\ sessions[ops[c].client].s.t.disposed

\* ---- C17 ----------------------------------------------------------------
\* healthCheck() is called
HealthStarts == health.pc = "idle" /\ calls' = calls + 1 /\ health' # health

\* healthCheck() returns its results
HealthReturns == health'.pc = "idle" /\ (health.pc = "running" \/ HealthStarts)

\* every entry in the pool when healthCheck is called has its ping pending
\* or its verdict set, and a pending ping stays pending until its verdict
\* is set
VerdictForEvery ==
  /\ HealthStarts =>
       \A j \in 1..Len(connections) :
         \/ <<connections[j].id, connections[j].client>> \in health'.pings
         \/ <<connections[j].id, connections[j].client, FALSE>> \in health'.verdicts
  /\ health.pc = "running" =>
       /\ health.verdicts \subseteq health'.verdicts
       /\ \A x \in health.pings :
            x \in health'.pings \/ \E ok \in BOOLEAN : <<x[1], x[2], ok>> \in health'.verdicts
  /\ HealthReturns => health'.pings = {}

\* when healthCheck returns, no entry holds a session whose ping failed and
\* that session is disconnected
UnhealthyGone ==
  HealthReturns =>
    \A v \in health'.verdicts :
      ~v[3] => ~Pooled(connections', v[2]) /\ ShutDown(sessions', v[2])

\* a step of healthCheck takes no entry out of the pool but the one whose
\* ping has just failed
HealthyKept ==
  /\ HealthStarts =>
       \A j \in 1..Len(connections) :
         isConnected(sessions[connections[j].client].s.t)
           => Has(connections', connections[j].id)
              /\ Get(connections', connections[j].id) = connections[j]
  /\ \A x \in health.pings \ health'.pings :
       \A j \in 1..Len(connections) :
         (connections[j].id # x[1] \/ <<x[1], x[2], TRUE>> \in health'.verdicts)
           => Has(connections', connections[j].id)
              /\ Get(connections', connections[j].id) = connections[j]

\* C17: healthCheck sets a verdict for every entry that is in the pool when
\* it is called; when it returns, every session whose ping failed is out of
\* the pool and disconnected; and it takes no entry whose ping succeeded
\* out of the pool.
C17_HealthCheckVerdicts ==
  [][VerdictForEvery /\ UnhealthyGone /\ HealthyKept]_vars

(***************************************************************************)
(* Properties of the tool interface and of the handshake                   *)
(***************************************************************************)
\* request x is handed to the transport in this step (its frame goes out)
Leaves(x) == x \in transport'.pendingRequests \ transport.pendingRequests

\* the handshake and the cache let a call of tool n pass
Invocable(n) == server.advertised.toolsExecute /\ n \in client.tools

\* C18: a tools/execute request leaves the session only if the server
\* advertised tools.execute in the handshake and the tool it names is in the
\* tool cache; an executeTool call for which that is not so is turned down
\* (not capable / tool not found) and sends nothing.
C18_ExecuteOnlyKnownTools ==
  [][/\ \A x \in Ids :
          Leaves(x) /\ callers'.method[x] = "tools/execute"
            => Invocable(callers'.tool[x])
     /\ \A n \in ToolNames :
          ExecuteTool(n) /\ ~Invocable(n)
            => /\ api'.refused \in {"notCapable", "notFound"}
               /\ UNCHANGED <<transport, callers, server>>]_vars

\* tools/execute for "echo" has reached the server, and a later call was
\* turned down because its tool is not in the cache
C18_Witness ==
  /\ \E x \in server.received :
       callers.method[x] = "tools/execute" /\ callers.tool[x] = "echo"
  /\ api.refused = "notFound"

\* a call was turned down for the missing capability although the tool is
\* in the cache
C18_NotCapableReached ==
  api.refused = "notCapable" /\ "echo" \in client.tools

\* the response to the initialize request has been received
InitializeAnswered ==
  \E y \in Ids : callers.method[y] = "initialize" /\ callers.outcome[y] = "resolved"

\* the initialized notification goes out in this step
NotifiesInitialized == ~server.notified /\ server'.notified

\* a tools/list or resources/list request goes out in this step
Discovers ==
  \E x \in Ids : Leaves(x) /\ callers'.method[x] \in {"tools/list", "resources/list"}

\* C19: the initialized notification is sent only after the initialize
\* response has been received, and a tools/list or resources/list request is
\* sent only on a session whose initialize has been answered and whose
\* initialized notification has been sent.
C19_InitializedBeforeDiscovery ==
  [][/\ NotifiesInitialized => InitializeAnswered
     /\ Discovers => InitializeAnswered /\ server'.notified]_vars

\* every request with method m issued so far has failed (error response,
\* timeout, failed send), and there is one
Failed(cs, m) ==
  /\ \E x \in Ids : cs.method[x] = m
  /\ \A x \in Ids :
       cs.method[x] = m => cs.outcome[x] \in {"rpcError", "timeout", "sendError"}

\* the discovery of initialize() ends in this step
DiscoveryEnds == client.initPc = "discover" /\ client'.initPc = "idle"

\* the session as connect() leaves it is Ready
Ready(t, c) == isConnected(t) /\ c.initialized

\* nobody has asked for the session to be closed and the server is there
Wanted(t, a) == a.disconnect = "idle" /\ ~t.disposed /\ EndpointAlive(t)

\* C20: when tools/list or resources/list fails during connect (the server
\* staying reachable), connect still resolves, the session is Ready and the
\* cache of the failed list is empty; a listTools call on the Ready session
\* with its empty cache sends tools/list again.
C20_DiscoveryFailureNotFatal ==
  [][/\ /\ DiscoveryEnds /\ Wanted(transport', api')
        /\ Failed(callers', "tools/list") \/ Failed(callers', "resources/list")
        => /\ client'.initResult = "resolved"
           /\ api.connect = "initialize" => api'.connectResult = "resolved"
           /\ Ready(transport', client')
           /\ Failed(callers', "tools/list") => client'.tools = {}
           /\ Failed(callers', "resources/list") => client'.resources = {}
     /\ /\ ListTools /\ Ready(transport, client) /\ Wanted(transport, api)
        /\ client.capabilities.toolsList /\ client.tools = {}
        => \E x \in Ids : Leaves(x) /\ callers'.method[x] = "tools/list"]_vars

\* a listTools call has returned the result of a tools/list request
Listed ==
  \E x \in Ids : callers.method[x] = "tools/list" /\ callers.outcome[x] = "resolved"

\* C21: on a Ready session whose tools have been listed, whatever the server
\* returned, a listTools call sends no tools/list request and leaves the
\* cache (what it returns) as it is.
C21_ListToolsCached ==
  [][ListTools /\ Ready(transport, client) /\ Listed
       => UNCHANGED <<transport, callers>> /\ client'.tools = client.tools]_vars
(***************************************************************************)
(* Properties of the manager's queries                                     *)
(***************************************************************************)
\* the call in progress has returned to its caller
Returned(op) == query.op = op /\ query.pc = "returned"

\* the call in progress acquired a connection to server id
Acquired(id) == query.seen[id].state \in {"answered", "listed"}

\* C22: testConnection never rejects, whatever server id it is given: it
\* returns false on any failure, true only when the ping was answered, and
\* a connection it acquired is released by the time it returns.
C22_TestConnectionNeverRejects ==
  Returned("testConnection") =>
    /\ query.result.kind = "bool"
    /\ query.result.value => query.seen[query.arg].state = "answered"
    /\ query.seen[query.arg].state # "none" => ~inUse[query.arg]

\* the same for the server ids the manager has a configuration for
C22_ConfiguredNeverRejects ==
  Returned("testConnection") /\ query.arg \in Configured(servers) =>
    /\ query.result.kind = "bool"
    /\ query.result.value => query.seen[query.arg].state = "answered"
    /\ query.seen[query.arg].state # "none" => ~inUse[query.arg]

\* what the servers that answered the call's listing returned, as pairs
Gathered == UNION {{id} \X query.seen[id].items : id \in ServerIds}

\* server id answered the listing with the tool the call looks for
Offers(id) == query.seen[id].state = "listed" /\ query.arg \in query.seen[id].items

\* C23: findTool, listTools and listResources never reject because a server
\* fails: every server they go over is tried, a server that fails is skipped
\* and what the others returned is the result; findTool returns the first
\* server, in insertion order, that offers the tool, and null when none does.
C23_QueriesSkipFailedServers ==
  /\ \A op \in {"findTool", "listTools", "listResources"} :
       Returned(op) => query.result.kind # "rejected"
  /\ \A op \in {"listTools", "listResources"} :
       Returned(op) =>
         /\ query.result.kind = "list"
         /\ query.acc = Gathered
         /\ \A i \in DOMAIN query.list : query.seen[query.list[i]].state # "none"
  /\ Returned("findTool") =>
       /\ query.result.kind \in {"found", "null"}
       /\ query.result.kind = "null" =>
            \A i \in DOMAIN servers :
              query.seen[servers[i]].state # "none" /\ ~Offers(servers[i])
       /\ query.result.kind = "found" =>
            \E i \in DOMAIN servers :
              /\ servers[i] = query.result.id
              /\ query.result.item = query.arg
              /\ Offers(servers[i])
              /\ \A j \in 1..(i - 1) :
                   query.seen[servers[j]].state # "none" /\ ~Offers(servers[j])

\* findTool has returned the tool of the second server after the first failed
C23_Witness ==
  /\ Returned("findTool")
  /\ Len(servers) = 2
  /\ query.seen[servers[1]].state = "failed"
  /\ query.result.kind = "found"
  /\ query.result.id = servers[2]

\* listTools has returned the tools of one server although another failed
C23_ListToolsPartial ==
  /\ Returned("listTools")
  /\ query.acc # {}
  /\ \E id \in ServerIds : query.seen[id].state = "failed"

\* listResources has returned the resources of one server although another failed
C23_ListResourcesPartial ==
  /\ Returned("listResources")
  /\ query.acc # {}
  /\ \E id \in ServerIds : query.seen[id].state = "failed"

(***************************************************************************)
(* Properties of the transports                                            *)
(***************************************************************************)
\* a connection attempt made by the reconnect timer of the websocket
\* transport, not by a connect() of the user, is under way
Reconnects ==
  /\ transport.kind = "websocket" /\ transport.performing
  /\ transport.reconnectAttempts > 0
  /\ api.connect # "transport" /\ api.disconnect = "idle"

\* C24: after an unexpected close the websocket transport keeps
\* reconnecting: an attempt that succeeds resets the counter and leaves the
\* transport connected; an attempt that fails is followed by another one
\* while fewer than maxReconnectAttempts have failed, and leaves the
\* transport in state Error once that many have.
C24_KeepsReconnecting ==
  [][/\ Reconnects /\ PerformConnectOk
         => transport'.state = Connected /\ transport'.reconnectAttempts = 0
     /\ Reconnects /\ PerformConnectFail
         => IF transport.reconnectAttempts < maxReconnectAttempts
            THEN /\ transport'.reconnectTimer
                 /\ transport'.reconnectAttempts = transport.reconnectAttempts + 1
            ELSE transport'.state = Error]_vars

\* the part on an attempt that succeeds, and the first attempt being made
C24_FirstAttempt ==
  [][/\ Reconnects /\ PerformConnectOk
         => transport'.state = Connected /\ transport'.reconnectAttempts = 0
     /\ WsClose /\ transport.state = Connected
         => transport'.reconnectTimer /\ transport'.state = Reconnecting]_vars

\* the reconnect counter never passes its first step
C24_OneAttempt == transport.reconnectAttempts <= 1

\* disconnect() of the session has completed and connect() has not been
\* called since (the session is disposed of right after, so it cannot be)
Torn == transport.disposed /\ api.disconnect = "idle"

\* no connection, no attempt at one, no socket and no child process
AtRest(t) ==
  /\ t.state = Disconnected
  /\ ~t.performing
  /\ t.ws \notin {"connecting", "open"}
  /\ t.process # "running"

\* disconnect() of a session whose connect() had completed completes in
\* this step
Completes ==
  \/ Disconnect /\ isConnected(transport) /\ ~transport.performing /\ Torn'
  \/ DisconnectFinish /\ ~transport.performing

\* C25: disconnect() after connect() leaves no residue on any transport:
\* when it completes the transport is Disconnected, and from then on the
\* transport stays so and opens no socket and starts no process on its own.
C25_DisconnectLeavesNoResidue ==
  [][/\ Completes => AtRest(transport')
     /\ Torn /\ AtRest(transport) => AtRest(transport')]_vars

\* the first part: how disconnect() leaves the transport
C25_EndsAtRest == [][Completes => AtRest(transport')]_vars

\* the second part, for each kind of transport
C25_StdioStaysAtRest ==
  [][Torn /\ transport.kind = "stdio" /\ AtRest(transport) => AtRest(transport')]_vars

C25_HttpStaysAtRest ==
  [][Torn /\ transport.kind = "http" /\ AtRest(transport) => AtRest(transport')]_vars

C25_WebsocketStaysAtRest ==
  [][Torn /\ transport.kind = "websocket" /\ AtRest(transport) => AtRest(transport')]_vars

\* C26: disconnect() of the stdio transport sends SIGTERM, waits up to 5 s
\* for the child to exit and sends SIGKILL to a child that is still alive
\* then: no child process outlives a completed disconnect().
C26_NoChildOutlivesDisconnect ==
  Torn /\ transport.kind = "stdio" => ~server.orphaned

\* disconnect() completes only once the child has exited or the timer fired,
\* and leaves the transport without a process handle
C26_WaitsForChild ==
  [][Disconnect /\ transport.kind = "stdio" /\ transport.process = "running"
       => api'.disconnect = "closing" /\ transport'.killed /\ ~Torn']_vars

\* the transport keeps no handle of a child once disconnect() has completed
C26_NoHandleLeft == Torn /\ transport.kind = "stdio" => transport.process = "none"

\* an inbound frame that fails parsing or validation is handled in this step
Malformed == MalformedFrame \/ \E x \in Ids : HttpMalformed(x)

\* the requests whose POST ended in this step (http)
Fetched == transport.fetches \ transport'.fetches

\* C27: on every transport an inbound frame that fails parsing or
\* validation is dropped: the connection state, the initialized flag, the
\* tool and resource caches and the other pending requests stay as they are.
C27_MalformedFrameDropped ==
  [][Malformed =>
       /\ transport'.state = transport.state
       /\ client'.initialized = client.initialized
       /\ client'.tools = client.tools
       /\ client'.resources = client.resources
       /\ \A y \in transport.pendingRequests \ Fetched :
            /\ y \in transport'.pendingRequests
            /\ callers'.outcome[y] = callers.outcome[y]]_vars

\* the same for the stream transports (stdio, websocket), where no request
\* at all is touched
C27_StreamFrameDropped ==
  [][MalformedFrame => UNCHANGED <<transport, client, callers, api>>]_vars

\* what a malformed http response leaves alone
C27_HttpRest ==
  [][(\E x \in Ids : HttpMalformed(x)) =>
       /\ client'.initialized = client.initialized
       /\ client'.tools = client.tools
       /\ client'.resources = client.resources
       /\ \A y \in transport.pendingRequests \ Fetched :
            /\ y \in transport'.pendingRequests
            /\ callers'.outcome[y] = callers.outcome[y]]_vars

(***************************************************************************)
(* Properties of the frame handling                                        *)
(***************************************************************************)
\* the kinds of message whose shape the frame has
Shapes(f) ==
  {k \in {"request", "notification", "response"} :
     \/ k = "request" /\ f.method # "absent" /\ f.id # "absent"
     \/ k = "notification" /\ f.method # "absent" /\ f.id = "absent"
     \/ k = "response" /\ f.id # "absent"
          /\ (f.result # "absent") # (f.error # "absent")}

\* the frame was delivered as a message
Delivered == verdict.done /\ "message" \in verdict.events

\* the kinds the frame was dispatched as
Dispatched == verdict.events \ {"message", "error"}

\* C28: an inbound frame is delivered as a message only if its jsonrpc is
\* "2.0" and it has the shape of exactly one of request, notification and
\* response (with exactly one of result and error), and a delivered frame is
\* dispatched as exactly that one kind.
C28_OnlyWellFormedFramesDispatched ==
  Delivered =>
    /\ frame.jsonrpc = "2.0"
    /\ Cardinality(Shapes(frame)) = 1
    /\ Dispatched = Shapes(frame)

\* the parts that hold: the version check, and never two kinds at once
C28_VersionChecked ==
  Delivered => frame.jsonrpc = "2.0" /\ Cardinality(Dispatched) <= 1

\* a frame of no kind is delivered as a message
C28_ShapelessDelivered ==
  Delivered /\ Shapes(frame) = {} /\ Dispatched = {}

\* a response frame with both result and error is dispatched as a response
C28_BothOutcomesDispatched ==
  /\ Delivered /\ frame.method = "absent"
  /\ frame.result # "absent" /\ frame.error # "absent"
  /\ Dispatched = {"response"}

(***************************************************************************)
(* Properties of the request ids                                           *)
(***************************************************************************)
\* request x is issued in this step: its caller starts to wait
Issued(x) == callers.method[x] = "none" /\ callers'.method[x] # "none"

\* C29: the number in the id of every request a session issues is larger
\* than that of every request it issued before, so no two requests share an
\* id and no id gets a second waiter in the pending map.
C29_RequestIdsIncrease ==
  [][/\ client'.requestId >= client.requestId
     /\ \A x \in Ids :
          callers'.method[x] # callers.method[x]
            => /\ Issued(x)
               /\ x > client.requestId /\ x <= client'.requestId
     /\ \A x \in Ids :
          Leaves(x) => Issued(x) /\ callers.outcome[x] = "none"]_vars

\* no id beyond the counter has been used, and none at or below it is unused
C29_CounterCoversIds ==
  \A x \in Ids : callers.method[x] # "none" <=> x <= client.requestId

\* three requests have been issued, two of them waiting at the same time
C29_Witness ==
  /\ client.requestId = MaxRequests
  /\ Cardinality(transport.pendingRequests) >= 2

(***************************************************************************)
(* Properties of the argument validation                                   *)
(***************************************************************************)
\* the fields the schema lists as required and the arguments omit
Omitted == {f \in schema.required : args[f] = "absent"}

\* C30: a tool call whose arguments omit a field the tool's input schema
\* lists as required fails with a validation error that names every such
\* field, and no tools/execute request is sent.
C30_MissingRequiredFieldRejected ==
  outcome.by # "none" /\ Omitted # {} =>
    /\ outcome.failed /\ ~outcome.sent
    /\ \A f \in Omitted : <<"missing", f>> \in outcome.errors

\* the same for calls through ToolExecutor of a tool whose schema has type
\* 'object', with every validation error in the report
C30_ExecutorValidates ==
  outcome.by = "executor" /\ schema.type = "object" =>
    /\ Omitted # {} =>
         /\ outcome.failed /\ ~outcome.sent
         /\ \A f \in Omitted : <<"missing", f>> \in outcome.errors
    /\ outcome.errors = missingErrors(schema, args) \cup invalidErrors(schema, args)
    /\ outcome.sent <=> outcome.errors = {}

\* a call through the session with a required field omitted has sent a request
C30_ClientSends ==
  outcome.by = "client" /\ schema.type = "object" /\ Omitted # {} /\ outcome.sent

\* a call through ToolExecutor has reported a missing and an invalid field together
C30_ExecutorCollects ==
  /\ outcome.by = "executor" /\ outcome.failed
  /\ \E f, g \in Fields : {<<"missing", f>>, <<"invalid", g>>} \subseteq outcome.errors

(***************************************************************************)
(* Properties of the caches and of connect()                               *)
(***************************************************************************)
\* the tool cache and the resource cache hold nothing
CachesEmpty(c) == c.tools = {} /\ c.resources = {}

\* C31: after every disconnect of a session, asked for through disconnect()
\* or seen as a close, an exit or an error of the transport, the tool cache
\* and the resource cache are empty: a session whose transport is not
\* connected holds no cache entry.
C31_CachesEmptyWhenDisconnected ==
  ~isConnected(transport) => CachesEmpty(client)

\* the same for a disconnect() of the session, once it has completed
C31_EmptyAfterDisconnectCall ==
  [][(Disconnect \/ DisconnectFinish) /\ Torn' => CachesEmpty(client')]_vars

\* the same for a close of the websocket of a session in use
C31_EmptyAfterWsClose ==
  [][WsClose /\ ~transport.disposed => CachesEmpty(client')]_vars

\* a session that went through the handshake and whose http transport has
\* failed still holds its tools
C31_ErrorKeepsTools ==
  /\ transport.kind = "http" /\ transport.state = Error
  /\ client.initialized /\ client.tools # {}

(***************************************************************************)
(* Properties of the pool: borrowing, stale sessions, failed opens         *)
(***************************************************************************)
\* caller c has obtained session k from the pool and not yet released it
Borrows(c, k) == ops[c].pc = "executing" /\ ops[c].client = k

Borrowed(k) == \E c \in Callers : Borrows(c, k)

\* C32: the inUse flag of a pool entry is true as long as some caller that
\* obtained its session has not released it, so a borrowed session is never
\* picked by the idle sweep or by the eviction of enforceLimit.
C32_BorrowedStaysInUse ==
  \A k \in 1..Len(connections) :
    Borrowed(connections[k].client) => connections[k].inUse

\* the idle sweep leaves the entries of borrowed sessions in the pool
C32_SweepSparesBorrowed ==
  [][IdleCleanup =>
       \A k \in 1..Len(connections) :
         Borrowed(connections[k].client) => Has(connections', connections[k].id)]_vars

\* session i is not the client of the pool entry of its server id, which
\* holds another client
Stale(i) ==
  /\ sessions[i].sid # "none"
  /\ Has(connections, sessions[i].sid)
  /\ Get(connections, sessions[i].sid).client # i

\* the entry of the server id of session i is the same after the step
EntryKept(i) ==
  /\ Has(connections', sessions[i].sid)
  /\ Get(connections', sessions[i].sid) = Get(connections, sessions[i].sid)

\* the disconnect of session i completes, outside a renewal and outside
\* disconnectAll (which store or clear entries themselves)
PlainFinish(i) ==
  /\ SessionDisconnectFinish(i)
  /\ sessions[i].waiter # "all"
  /\ \A id \in ServerIds : renewing[id].pc = "idle"

\* C33: a 'disconnect' event of a session that is no longer the pool entry
\* of its server id (evicted, disconnected or replaced, with a new session
\* stored under the id since) neither removes nor alters the current entry.
C33_StaleDisconnectKeepsEntry ==
  [][\A i \in SessionIds :
       (SessionClose(i) \/ PlainFinish(i)) /\ Stale(i) => EntryKept(i)]_vars

\* ... for the close of a socket alone, and for the end of a disconnect alone
C33_StaleCloseKeepsEntry ==
  [][\A i \in SessionIds : SessionClose(i) /\ Stale(i) => EntryKept(i)]_vars

C33_StaleFinishKeepsEntry ==
  [][\A i \in SessionIds : PlainFinish(i) /\ Stale(i) => EntryKept(i)]_vars

\* a session without a pool listener left (disposed) changes no entry
C33_DisposedSessionKeepsEntry ==
  [][\A i \in SessionIds :
       SessionClose(i) /\ Stale(i) /\ sessions[i].s.t.disposed => EntryKept(i)]_vars

\* the createConnection promise of session i has rejected and its
\* client.connect() has settled
FailedOpen(i) == sessions[i].promise = "rejected" /\ ~InFlight(sessions[i])

\* C34: when getConnection fails (transport error, handshake error, connect
\* timeout) the session it constructed ends up disconnected and disposed: no
\* child or socket of a failed open stays alive, and a connect completing
\* after the timeout leaves no connected session outside the pool.
C34_FailedOpenTornDown ==
  \A i \in SessionIds :
    FailedOpen(i) => ~isConnected(sessions[i].s.t) /\ sessions[i].s.t.disposed

\* a session whose open timed out is connected and ready, in no pool entry
C34_LateConnectOutsidePool ==
  \E i \in SessionIds :
    /\ FailedOpen(i) /\ clientIsConnected(sessions[i])
    /\ \A k \in 1..Len(connections) : connections[k].client # i

\* a stdio open that failed in the transport leaves no child process
C34_FailedSpawnLeavesNoChild ==
  [][\A i \in SessionIds :
       OpenFail(i, "transport") /\ sessions[i].s.t.kind = "stdio"
       => sessions'[i].s.t.process = "none"]_vars

\* session i, with its listeners still registered, emits 'disconnect'
EmitsDisconnect(i) == SessionClose(i) /\ ~sessions[i].s.t.disposed

\* C35: every session stored in the pool, one installed by a renewal
\* included, drops the pool entry of its server id when it disconnects: the
\* pool never keeps an entry whose session has emitted 'disconnect'.
C35_DisconnectDropsEntry ==
  [][\A i \in SessionIds :
       EmitsDisconnect(i) /\ Pooled(connections, i) => ~Pooled(connections', i)]_vars

\* ... for the sessions opened by getConnection
C35_OpenedSessionDropsEntry ==
  [][\A i \in SessionIds :
       EmitsDisconnect(i) /\ Pooled(connections, i) /\ ~sessions[i].renewed
       => ~Pooled(connections', i)]_vars

\* the pool holds a renewed session whose socket has closed
C35_RenewedEntryOutlivesSocket ==
  \E i \in SessionIds :
    /\ Pooled(connections, i) /\ sessions[i].renewed
    /\ sessions[i].s.t.ws = "closed" /\ ~isConnected(sessions[i].s.t)

(***************************************************************************)
(* Properties of connect(), of the http timers and of the order of send    *)
(* and response                                                            *)
(***************************************************************************)
\* the pending connect() of the client resolves in this step
ConnectResolves == api.connectResult # "resolved" /\ api'.connectResult = "resolved"

\* C36: whenever MCPClient.connect() resolves the session is Ready: the
\* transport is Connected and initialized is true, the handshake having been
\* performed on the current transport connection.
C36_ConnectResolvesReady ==
  [][ConnectResolves => isConnected(transport') /\ client'.initialized]_vars

\* connect() has resolved on a websocket that reconnected by itself during
\* the handshake: connected, yet not initialized
C36_ResolvedAfterReconnect ==
  /\ api.connectResult = "resolved" /\ api.disconnect = "idle"
  /\ transport.kind = "websocket" /\ isConnected(transport) /\ ~transport.disposed
  /\ ~client.initialized

\* C37: with several http requests in flight the timeout of a request aborts
\* that request and no other one, and every request that outlives the
\* request timeout is itself aborted.
C37_TimeoutAbortsOwnRequest ==
  [][\A x \in Ids :
       HttpAbortTimeout(x) /\ x \in transport.fetches
       => transport'.fetches = transport.fetches \ {x}]_vars

\* ... when the controller stored in the transport is that of the request
C37_OwnControllerAborted ==
  [][\A x \in Ids :
       HttpAbortTimeout(x) /\ transport.abortController = x
       => transport'.fetches = transport.fetches \ {x}]_vars

\* the abort timer of a request has fired and the request is still in flight
C37_OutlivesTimeout ==
  \E x \in Ids :
    /\ transport.kind = "http" /\ x \in transport.fetches
    /\ x \notin transport.abortTimers /\ x \notin transport.timers
    /\ ~transport.disposed

(***************************************************************************)
(* Properties of the pool: disposal and the end of getConnection           *)
(***************************************************************************)
\* every open and every disconnect the pool has started is over
PoolSettled ==
  /\ \A i \in SessionIds :
       /\ ~InFlight(sessions[i])
       /\ sessions[i].s.a.disconnect = "idle"
       /\ sessions[i].waiter = "none"
  /\ \A id \in ServerIds : connecting[id] = NoSession /\ renewing[id].pc = "idle"

\* C38: once the pool is disposed and every open that was in flight has
\* settled, the pool holds no entry and no session it constructed is still
\* connected.
C38_DisposedPoolIsEmpty ==
  disposed /\ PoolSettled
  => /\ connections = <<>>
     /\ \A i \in SessionIds : ~isConnected(sessions[i].s.t)

\* ... the entries alone
C38_DisposedPoolHasNoEntry ==
  disposed /\ PoolSettled => connections = <<>>

\* dispose() starts the disconnect of the client of every entry
C38_DisposeDisconnectsEntries ==
  [][PoolDispose =>
       \A k \in 1..Len(connections) :
         LET p == sessions'[connections[k].client]
         IN  p.sid = "none" \/ p.s.t.disposed \/ p.s.a.disconnect = "closing"]_vars

(***************************************************************************)
(* Order of transmission and response                                      *)
(***************************************************************************)
\* the caller of request y gets its response in this step
Observes(y) ==
  /\ callers.outcome[y] = "parked"
  /\ callers'.outcome[y] \in {"resolved", "rpcError"}

\* send() of request y has not returned yet: the write callback (stdio,
\* websocket) or the fetch (http) is outstanding
Transmitting(t, y) == y \in t.sending \/ y \in t.fetches

\* C39: on every transport the caller of a request cannot observe its
\* response before the transmission of the request has completed: the pending
\* entry is not resolved while send is still running.
C39_ResponseAfterSend ==
  [][\A y \in Ids : Observes(y) => ~Transmitting(transport', y)]_vars

\* ... on the stream transports, and on http when the response carries the
\* id of the request it answers
C39_StreamResponseAfterSend ==
  [][\A y \in Ids :
       Observes(y) /\ transport.kind # "http" => ~Transmitting(transport, y)]_vars

C39_HttpOwnResponseAfterSend ==
  [][\A x \in Ids :
       HttpFetchOk(x, x, FALSE) /\ Observes(x) => ~Transmitting(transport', x)]_vars

\* the race of createConnection (protocol.ts 446-450) ends: client.connect()
\* settles or the connect timer fires
OpenSettles ==
  \E i \in SessionIds :
    \/ OpenOk(i)
    \/ OpenTimeout(i)
    \/ \E how \in {"transport", "handshake"} : OpenFail(i, how)

\* the wait of a transport's disconnect() ends: 'exit' / 'close', or its 5 s
\* timer (part_000 529-534, websocket.ts 180-187)
DisconnectSettles == \E i \in SessionIds : SessionDisconnectFinish(i)

\* an open, or the disconnect of an evicted session, is pending: the
\* enabling conditions of OpenSettles and of DisconnectSettles
OpenPending == \E i \in SessionIds : InFlight(sessions[i])
DisconnectPending == \E i \in SessionIds : sessions[i].s.a.disconnect = "closing"

\* timers fire, no open and no disconnect stays pending for ever: weak
\* fairness of both, WF_vars(A) == []<>~ENABLED <<A>>_vars \/ []<><<A>>_vars
\* with the enabling conditions written out
AcquireFairness ==
  /\ \/ []<>~OpenPending
     \/ []<><<OpenSettles /\ UNCHANGED besidesPool>>_vars
  /\ \/ []<>~DisconnectPending
     \/ []<><<DisconnectSettles /\ UNCHANGED besidesPool>>_vars

\* the pool with its timers
SpecPoolAcquire == PoolInit /\ [][PoolNext]_vars /\ AcquireFairness

\* the getConnection call of caller c has not returned
Acquiring(c) == ops[c].pc \in {"opening", "joined", "enforcing"}

\* C40: every getConnection call eventually resolves or rejects: at once
\* for a connected cached entry, and for a new open once the connect race and
\* the disconnect of an evicted session have ended; no call waits for pool
\* capacity or for another caller to release.
C40_GetConnectionSettles ==
  \A c \in Callers : Acquiring(c) ~> ~Acquiring(c)

\* a call that has not returned waits for an open in flight or for the
\* disconnect of the session it evicted, never for anything else
C40_WaitsForTimedWorkOnly ==
  \A c \in Callers :
    /\ ops[c].pc \in {"opening", "joined"} => InFlight(sessions[ops[c].client])
    /\ ops[c].pc = "enforcing" =>
         \E k \in SessionIds :
           sessions[k].waiter = c /\ sessions[k].s.a.disconnect = "closing"

\* both callers hold a session, of different servers, in a pool over its cap
\* whose entries are all in use
C40_Witness ==
  /\ \A c \in Callers : ops[c].pc = "executing" /\ Pooled(connections, ops[c].client)
  /\ \E c, d \in Callers : ops[c].sid # ops[d].sid
  /\ Len(connections) > maxConnections
  /\ \A k \in 1..Len(connections) : connections[k].inUse

====
